---- MODULE Spec2Model ----
(***************************************************************************)
(* A model of notionctl.mjs (skills/notion-api/scripts): the HTTP adapter  *)
(* (throttle + retrying notionRequest), the pagination loops, the          *)
(* depth-bounded block-tree fetch, append chunking, the inline formatter,  *)
(* the markdown block parser and the block renderer.                       *)
(*                                                                         *)
(* Strings are sequences of one-character strings.  Every subsystem has    *)
(* its own specification (SpecHttp, SpecPage, SpecTree, SpecAppend,        *)
(* SpecInline, SpecParse, SpecCmd) over the one set of variables; a       *)
(* subsystem that a specification does not run stays in its idle state.   *)
(***************************************************************************)
EXTENDS Integers, Sequences, FiniteSets, TLC

VARIABLES
    \* ---- HTTP adapter ----
    now,            \* Date.now(), in ms
    nextAllowedAt,  \* the module-level throttle gate (line 30)
    callers,        \* the coroutines that call notionRequest in this run
    pc,             \* per coroutine: its position inside notionRequest
    attempt,        \* per coroutine: the loop variable of the retry loop
    wakeAt,         \* per coroutine: the instant its pending sleep() expires
    callsLeft,      \* per coroutine: notionRequest calls it has yet to make
    reqCount,       \* per coroutine: fetch() calls issued by its current call
    lastResp,       \* per coroutine: the last response, status and error body
    result,         \* per coroutine: how its current call ended
    lastSentAt,     \* the instant of the latest fetch() (-1: none yet)
    prevSentAt,     \* the instant of the fetch() before that (-1: none)
    sentTotal,      \* how many fetch() calls the run has issued
    \* ---- pagination loops ----
    pgKind, pgPc, pgCursor, pgResults, pgPages, pgLimit,
    \* ---- getBlockTree ----
    trPc, trRemote, trRoot, trMaxDepth, trStack, trOut,
    \* ---- appendBlocks ----
    apPc, apBlocks, apChunks, apK, apSent, apResults,
    \* ---- parseInlineFormatting ----
    inPc, inText, inOut,
    \* ---- parseMarkdownToBlocks / blocksToMarkdown ----
    mdPc, mdText, mdLines, mdI, mdBlocks, mdFirst, mdRound,
    \* ---- cmdCreateMd / cmdUpdatePage ----
    cmPc,           \* the position of the command
    cmArgs,         \* its command line
    cmRemote,       \* what the remote holds: the schema, the page's parent
    cmProps,        \* the properties object built so far
    cmCalls,        \* the requests sent so far, in order
    cmError,        \* the error thrown, if any
    \* ---- cmdExportMd: blocksToMarkdown of a fetched tree ----
    rdPc,           \* the position of the export
    rdBlocks,       \* the block tree getBlockTree returned
    rdParts,        \* the markdown of each top-level block (line 675)
    rdOut,          \* the markdown document
    \* ---- Plaid server: the token file and its request handlers ----
    plFile,         \* the item ids in state/plaid-tokens.json, in order
    plBefore,       \* the item ids the file held when the requests arrived
    plReq           \* per handler: its request, position, tokens and status

httpVars   == <<now, nextAllowedAt, callers, pc, attempt, wakeAt, callsLeft,
                reqCount, lastResp, result, lastSentAt, prevSentAt, sentTotal>>
pageVars   == <<pgKind, pgPc, pgCursor, pgResults, pgPages, pgLimit>>
treeVars   == <<trPc, trRemote, trRoot, trMaxDepth, trStack, trOut>>
appendVars == <<apPc, apBlocks, apChunks, apK, apSent, apResults>>
inlineVars == <<inPc, inText, inOut>>
parseVars  == <<mdPc, mdText, mdLines, mdI, mdBlocks, mdFirst, mdRound>>
cmdVars    == <<cmPc, cmArgs, cmRemote, cmProps, cmCalls, cmError>>
renderVars == <<rdPc, rdBlocks, rdParts, rdOut>>
plaidVars  == <<plFile, plBefore, plReq>>
vars == <<httpVars, pageVars, treeVars, appendVars, inlineVars, parseVars, cmdVars,
         renderVars, plaidVars>>

\* what a step of one subsystem leaves alone
HttpOnly   == UNCHANGED <<pageVars, treeVars, appendVars, inlineVars, parseVars, cmdVars,
                           renderVars, plaidVars>>
PageOnly   == UNCHANGED <<httpVars, treeVars, appendVars, inlineVars, parseVars, cmdVars,
                           renderVars, plaidVars>>
TreeOnly   == UNCHANGED <<httpVars, pageVars, appendVars, inlineVars, parseVars, cmdVars,
                           renderVars, plaidVars>>
AppendOnly == UNCHANGED <<httpVars, pageVars, treeVars, inlineVars, parseVars, cmdVars,
                           renderVars, plaidVars>>
InlineOnly == UNCHANGED <<httpVars, pageVars, treeVars, appendVars, parseVars, cmdVars,
                           renderVars, plaidVars>>
ParseOnly  == UNCHANGED <<httpVars, pageVars, treeVars, appendVars, inlineVars, cmdVars,
                           renderVars, plaidVars>>
CmdOnly    == UNCHANGED <<httpVars, pageVars, treeVars, appendVars, inlineVars, parseVars,
                           renderVars, plaidVars>>
RenderOnly == UNCHANGED <<httpVars, pageVars, treeVars, appendVars, inlineVars, parseVars,
                           cmdVars, plaidVars>>
PlaidOnly  == UNCHANGED <<httpVars, pageVars, treeVars, appendVars, inlineVars, parseVars,
                           cmdVars, renderVars>>

(***************************************************************************)
(* Generic helpers                                                         *)
(***************************************************************************)
Max(a, b) == IF a >= b THEN a ELSE b
Min(a, b) == IF a <= b THEN a ELSE b

RECURSIVE Pow2(_)
Pow2(n) == IF n = 0 THEN 1 ELSE 2 * Pow2(n - 1)

\* s.slice(a, b) with 0-based a (inclusive) and b (exclusive), on a sequence
Slice(s, a, b) ==
    LET lo == Max(a, 0)
        hi == Min(b, Len(s))
    IN  IF hi <= lo THEN <<>> ELSE SubSeq(s, lo + 1, hi)

(***************************************************************************)
(* HTTP adapter: throttle() and notionRequest()                            *)
(***************************************************************************)
MIN_INTERVAL_MS == 350
MAX_RETRIES == 6

Procs == {"c1", "c2"}
\* how many notionRequest calls one coroutine makes, one after the other
MaxCalls == 2
\* the clock may tick freely (by TickMs) up to MaxTime; after that it only
\* jumps to the expiry of a pending sleep
MaxTime == 200
TickMs == 100
\* a run with one caller issues at most MaxRequests requests in all, a run
\* with concurrent callers at most MaxConcRequests
MaxRequests == 8
MaxConcRequests == 4
RequestCap == IF Cardinality(callers) = 1 THEN MaxRequests ELSE MaxConcRequests

OkStatus == 200
Statuses == {200, 400, 429, 500, 501, 502, 503, 504}

\* the parsed error body of a non-OK response (lines 257-266)
ErrBodies ==
    { [isObject |-> TRUE,  hasMessage |-> TRUE,  message |-> "m", code |-> "c"],
      [isObject |-> TRUE,  hasMessage |-> FALSE, message |-> "",  code |-> "c"],
      [isObject |-> FALSE, hasMessage |-> FALSE, message |-> "",  code |-> ""] }

\* the retry-after header: absent, a number of ms (seconds * 1000), or text
\* that parseFloat turns into NaN
RetryAfters ==
    { [kind |-> "absent", ms |-> 0],
      [kind |-> "number", ms |-> 0],
      [kind |-> "number", ms |-> 0 - 1000],
      [kind |-> "garbage", ms |-> 0] }

\* an OK response has no error body, and only a 429 is read for retry-after
BodiesFor(s) ==
    IF s = OkStatus
    THEN {[isObject |-> FALSE, hasMessage |-> FALSE, message |-> "", code |-> ""]}
    ELSE ErrBodies
RetryAftersFor(s) == IF s = 429 THEN RetryAfters ELSE {[kind |-> "absent", ms |-> 0]}

NoResult == [kind |-> "none"]
NoBody == [isObject |-> FALSE, hasMessage |-> FALSE, message |-> "", code |-> ""]
NoResp == [status |-> 0, body |-> NoBody]

IsRetryAnyError(status, att) == att < MAX_RETRIES
IsRetryOnceMore(status, att) ==
    (status = 429 \/ status = 500 \/ status = 502 \/ status = 503 \/ status = 504)
    /\ att <= MAX_RETRIES
\* lines 270 and 278: the two conditions under which the loop continues
IsRetry(status, att) ==
    \/ status = 429 /\ att < MAX_RETRIES
    \/ (status = 500 \/ status = 502 \/ status = 503 \/ status = 504)
         /\ att < MAX_RETRIES

\* lines 271-273 and 279: how long the loop sleeps before it continues
WaitMs(status, att, ra) ==
    IF status = 429
    THEN IF ra.kind = "number" THEN Max(0, ra.ms) ELSE 1000 * Pow2(att)
    ELSE 500 * Pow2(att)

\* lines 284-288: the structured error that is thrown
ErrorOf(status, body) ==
    [kind    |-> "error",
     status  |-> status,
     code    |-> IF body.isObject THEN body.code ELSE "undefined",
     message |-> IF body.isObject /\ body.hasMessage
                 THEN <<body.message>> ELSE <<"HTTP", status>>,
     body    |-> body]

\* line 292
GenericError == [kind |-> "generic"]

SleepNeededInverted(t, gate) == t > gate
\* line 222: whether throttle() sleeps
SleepNeeded(t, gate) == t < gate

\* the shared tail of throttle() and the fetch() that follows it (223, 245)
IssueRequest(p) ==
    /\ sentTotal < RequestCap
    /\ sentTotal' = sentTotal + 1
    /\ nextAllowedAt' = now + MIN_INTERVAL_MS
    /\ pc' = [pc EXCEPT ![p] = "fetch"]
    /\ reqCount' = [reqCount EXCEPT ![p] = @ + 1]
    /\ prevSentAt' = lastSentAt
    /\ lastSentAt' = now

\* the caller starts a notionRequest call (lines 226-243)
Call(p) ==
    /\ p \in callers
    /\ pc[p] \in {"idle", "returned"}
    /\ callsLeft[p] > 0
    /\ callsLeft' = [callsLeft EXCEPT ![p] = @ - 1]
    /\ pc' = [pc EXCEPT ![p] = "throttle"]
    /\ attempt' = [attempt EXCEPT ![p] = 0]
    /\ reqCount' = [reqCount EXCEPT ![p] = 0]
    /\ lastResp' = [lastResp EXCEPT ![p] = NoResp]
    /\ result' = [result EXCEPT ![p] = NoResult]
    /\ UNCHANGED <<now, nextAllowedAt, callers, wakeAt, lastSentAt, prevSentAt, sentTotal>>
    /\ HttpOnly

\* throttle(), up to its await (lines 221-222); with no sleep, through to fetch
ThrottleEnter(p) ==
    /\ pc[p] = "throttle"
    /\ IF SleepNeeded(now, nextAllowedAt)
       THEN /\ wakeAt' = [wakeAt EXCEPT ![p] = nextAllowedAt]
            /\ pc' = [pc EXCEPT ![p] = "throttleSleep"]
            /\ UNCHANGED <<nextAllowedAt, reqCount, prevSentAt, lastSentAt, sentTotal>>
       ELSE /\ IssueRequest(p)
            /\ UNCHANGED wakeAt
    /\ UNCHANGED <<now, callers, attempt, callsLeft, lastResp, result>>
    /\ HttpOnly

\* throttle() after its sleep (line 223), then fetch (line 245)
ThrottleWake(p) ==
    /\ pc[p] = "throttleSleep"
    /\ now >= wakeAt[p]
    /\ IssueRequest(p)
    /\ UNCHANGED <<now, callers, attempt, wakeAt, callsLeft, lastResp, result>>
    /\ HttpOnly

\* a response arrives and the loop body handles it (lines 247-290)
Respond(p, status, body, ra) ==
    /\ pc[p] = "fetch"
    /\ lastResp' = [lastResp EXCEPT ![p] =
                       [status |-> status,
                        body |-> IF status = OkStatus THEN NoBody ELSE body]]
    /\ IF status = OkStatus
       THEN /\ pc' = [pc EXCEPT ![p] = "returned"]
            /\ result' = [result EXCEPT ![p] = [kind |-> "ok"]]
            /\ UNCHANGED wakeAt
       ELSE IF IsRetry(status, attempt[p])
       THEN /\ pc' = [pc EXCEPT ![p] = "backoff"]
            /\ wakeAt' = [wakeAt EXCEPT ![p] = now + WaitMs(status, attempt[p], ra)]
            /\ UNCHANGED result
       ELSE /\ pc' = [pc EXCEPT ![p] = "threw"]
            /\ result' = [result EXCEPT ![p] = ErrorOf(status, body)]
            /\ UNCHANGED wakeAt
    /\ UNCHANGED <<now, nextAllowedAt, callers, attempt, callsLeft, reqCount,
                   lastSentAt, prevSentAt, sentTotal>>
    /\ HttpOnly

\* fetch() itself rejects (no response): the exception leaves notionRequest
FetchRejects(p) ==
    /\ pc[p] = "fetch"
    /\ pc' = [pc EXCEPT ![p] = "threw"]
    /\ result' = [result EXCEPT ![p] = [kind |-> "network"]]
    /\ UNCHANGED <<now, nextAllowedAt, callers, attempt, wakeAt, callsLeft,
                   reqCount, lastResp, lastSentAt, prevSentAt, sentTotal>>
    /\ HttpOnly

\* the backoff sleep ends; `continue` runs attempt++ and the loop test (243)
BackoffWake(p) ==
    /\ pc[p] = "backoff"
    /\ now >= wakeAt[p]
    /\ attempt' = [attempt EXCEPT ![p] = @ + 1]
    /\ IF attempt[p] + 1 <= MAX_RETRIES
       THEN /\ pc' = [pc EXCEPT ![p] = "throttle"]
            /\ UNCHANGED result
       ELSE /\ pc' = [pc EXCEPT ![p] = "threw"]
            /\ result' = [result EXCEPT ![p] = GenericError]
    /\ UNCHANGED <<now, nextAllowedAt, callers, wakeAt, callsLeft, reqCount,
                   lastResp, lastSentAt, prevSentAt, sentTotal>>
    /\ HttpOnly

Sleeping(p) == pc[p] \in {"throttleSleep", "backoff"}

\* the clock: a free tick, or a jump to the expiry of a pending sleep
Tick ==
    /\ \E t \in {now + TickMs} \cup {wakeAt[p] : p \in {q \in Procs : Sleeping(q)}} :
         /\ t > now
         /\ t <= MaxTime \/ \E p \in Procs : Sleeping(p) /\ wakeAt[p] = t
         /\ now' = t
    /\ UNCHANGED <<nextAllowedAt, callers, pc, attempt, wakeAt, callsLeft,
                   reqCount, lastResp, result, lastSentAt, prevSentAt, sentTotal>>
    /\ HttpOnly

\* the state before the first call of a run whose callers are cs
HttpStart(cs) ==
    /\ now = 0
    /\ nextAllowedAt = 0
    /\ callers = cs
    /\ pc = [p \in Procs |-> "idle"]
    /\ attempt = [p \in Procs |-> 0]
    /\ wakeAt = [p \in Procs |-> 0]
    /\ callsLeft = [p \in Procs |-> IF p \in cs THEN MaxCalls ELSE 0]
    /\ reqCount = [p \in Procs |-> 0]
    /\ lastResp = [p \in Procs |-> NoResp]
    /\ result = [p \in Procs |-> NoResult]
    /\ lastSentAt = 0 - 1
    /\ prevSentAt = 0 - 1
    /\ sentTotal = 0

\* the CLI as written: one coroutine, its calls awaited one after the other
InitHttp == HttpStart({"c1"})

\* two coroutines of one process, their calls in flight together
InitHttpConc == HttpStart(Procs)

IdleHttp == HttpStart({}) /\ callsLeft = [p \in Procs |-> 0]

NextHttp ==
    \/ \E p \in Procs : Call(p)
    \/ \E p \in Procs : ThrottleEnter(p)
    \/ \E p \in Procs : ThrottleWake(p)
    \/ \E p \in Procs, s \in Statuses :
         \E b \in BodiesFor(s), ra \in RetryAftersFor(s) : Respond(p, s, b, ra)
    \/ \E p \in Procs : FetchRejects(p)
    \/ \E p \in Procs : BackoffWake(p)
    \/ Tick

\* the same coroutines against a server that answers 200 or 429 only
ConcStatuses == {200, 429}
ConcBody == [isObject |-> TRUE, hasMessage |-> TRUE, message |-> "m", code |-> "c"]
ConcRetryAfters == {[kind |-> "absent", ms |-> 0], [kind |-> "number", ms |-> 0]}

NextHttpConc ==
    \/ \E p \in Procs : Call(p)
    \/ \E p \in Procs : ThrottleEnter(p)
    \/ \E p \in Procs : ThrottleWake(p)
    \/ \E p \in Procs, s \in ConcStatuses, ra \in ConcRetryAfters :
         Respond(p, s, ConcBody, ra)
    \/ \E p \in Procs : FetchRejects(p)
    \/ \E p \in Procs : BackoffWake(p)
    \/ Tick

(***************************************************************************)
(* Pagination loops: listBlockChildren and cmdSearch                       *)
(***************************************************************************)
\* the model stops feeding pages after MaxPages; a page carries at most
\* MaxPageItems results; cmdSearch's --limit is drawn from 1..MaxLimit
MaxPages == 3
MaxPageItems == 1
MaxLimit == 2

\* a falsy next_cursor (null, undefined or "")
NoCursor == ""
Cursors == {NoCursor, "cur"}

\* what notionRequest returns for page number n: null (an empty body), or a
\* parsed page whose results are tagged with the page number
PageResponses(n) ==
    { [isNull |-> TRUE, results |-> <<>>, has_more |-> FALSE, next_cursor |-> NoCursor] }
    \cup
    { [isNull |-> FALSE, results |-> [j \in 1..k |-> <<n, j>>],
       has_more |-> hm, next_cursor |-> c] :
         k \in 0..MaxPageItems, hm \in BOOLEAN, c \in Cursors }

\* lines 547-549 and 1221-1223: the loop goes on after this page
ContinuesNoCursorCheck(res) == ~res.isNull /\ res.has_more
Continues(res) == ~res.isNull /\ res.has_more /\ res.next_cursor # NoCursor

\* line 1216: cmdSearch's loop test; listBlockChildren loops on `true`
LoopTest(kind, results, limit) ==
    IF kind = "cmdSearch" THEN Len(results) < limit ELSE TRUE

\* one iteration of the loop: the request, the push, the breaks
PageFetch(res) ==
    /\ pgPc = "loop"
    /\ Len(pgPages) < MaxPages
    /\ pgPages' = Append(pgPages, res)
    /\ pgResults' = pgResults \o res.results
    /\ pgCursor' = IF ~res.isNull /\ res.has_more THEN res.next_cursor ELSE pgCursor
    /\ pgPc' = IF Continues(res) /\ LoopTest(pgKind, pgResults \o res.results, pgLimit)
               THEN "loop" ELSE "done"
    /\ UNCHANGED <<pgKind, pgLimit>>
    /\ PageOnly

\* notionRequest throws: the exception leaves the loop and the function
PageThrows ==
    /\ pgPc = "loop"
    /\ Len(pgPages) < MaxPages
    /\ pgPc' = "threw"
    /\ UNCHANGED <<pgKind, pgCursor, pgResults, pgPages, pgLimit>>
    /\ PageOnly

InitPage ==
    /\ pgKind \in {"listBlockChildren", "cmdSearch"}
    /\ pgLimit \in 1..MaxLimit
    /\ pgPc = "loop"
    /\ pgCursor = NoCursor
    /\ pgResults = <<>>
    /\ pgPages = <<>>

IdlePage ==
    /\ pgKind = "listBlockChildren"
    /\ pgLimit = 1
    /\ pgPc = "idle"
    /\ pgCursor = NoCursor
    /\ pgResults = <<>>
    /\ pgPages = <<>>

NextPage ==
    \/ \E res \in PageResponses(Len(pgPages) + 1) : PageFetch(res)
    \/ PageThrows

(***************************************************************************)
(* getBlockTree                                                            *)
(***************************************************************************)
DEFAULT_MAX_DEPTH == 50
\* the remote document has blocks 1..NumBlocks; maxDepth is tried from 0 to
\* MaxDepthTried on every document, and at its default on the documents
\* whose blocks have at most one child each
NumBlocks == 2
MaxDepthTried == 3

BlockIds == 1..NumBlocks
\* the child lists a remote block may have: none, one child, or two
ChildLists ==
    {<<>>} \cup {<<a>> : a \in BlockIds}
           \cup {<<a, b>> : a \in BlockIds, b \in BlockIds}
Remotes == [BlockIds -> ChildLists]

\* listBlockChildren as getBlockTree sees it: the raw child blocks, in order
ListBlockChildren(remote, blockId) ==
    [k \in 1..Len(remote[blockId]) |->
        [id |-> remote[blockId][k],
         has_children |-> remote[remote[blockId][k]] # <<>>]]

\* line 556
AtDepthLimitOffByOne(depth, maxDepth) == depth > maxDepth
AtDepthLimit(depth, maxDepth) == depth >= maxDepth

\* getBlockTree awaits every call it makes, so the calls in progress form a
\* stack: trStack holds one frame per invocation, the innermost last.  A frame
\* has the arguments blockId and depth, the blocks listed at line 555 and the
\* position k of the loop of lines 558-562.
Frame(remote, blockId, depth) ==
    [blockId |-> blockId,
     depth |-> depth,
     blocks |-> ListBlockChildren(remote, blockId),
     k |-> 1]

Top == trStack[Len(trStack)]

\* lines 556 and 563: the invocation returns its blocks
Returns(f) == AtDepthLimit(f.depth, trMaxDepth) \/ f.k > Len(f.blocks)

\* lines 554-555: the outermost call
TreeCall ==
    /\ trPc = "call"
    /\ trStack' = <<Frame(trRemote, trRoot, 0)>>
    /\ trPc' = "run"
    /\ UNCHANGED <<trRemote, trRoot, trMaxDepth, trOut>>
    /\ TreeOnly

\* lines 559-560: block k has children: call getBlockTree for them
TreeDescend ==
    /\ trPc = "run"
    /\ ~Returns(Top)
    /\ Top.blocks[Top.k].has_children
    /\ trStack' = Append(trStack, Frame(trRemote, Top.blocks[Top.k].id, Top.depth + 1))
    /\ UNCHANGED <<trPc, trRemote, trRoot, trMaxDepth, trOut>>
    /\ TreeOnly

\* lines 558-559: block k has no children: on to the next block
TreeSkip ==
    /\ trPc = "run"
    /\ ~Returns(Top)
    /\ ~Top.blocks[Top.k].has_children
    /\ trStack' = [trStack EXCEPT ![Len(trStack)].k = @ + 1]
    /\ UNCHANGED <<trPc, trRemote, trRoot, trMaxDepth, trOut>>
    /\ TreeOnly

\* lines 556 and 563: the innermost invocation returns its blocks; line 560:
\* its caller stores them in b.children and goes on to the next block
TreeReturn ==
    /\ trPc = "run"
    /\ Returns(Top)
    /\ IF Len(trStack) = 1
       THEN /\ trOut' = Top.blocks
            /\ trStack' = <<>>
            /\ trPc' = "done"
       ELSE /\ LET n == Len(trStack) - 1
                   caller == trStack[n]
                   b == caller.blocks[caller.k]
               IN  trStack' =
                     [SubSeq(trStack, 1, n) EXCEPT ![n] =
                        [caller EXCEPT
                            !.blocks[caller.k] =
                                [id |-> b.id, has_children |-> b.has_children,
                                 children |-> Top.blocks],
                            !.k = @ + 1]]
            /\ UNCHANGED <<trOut, trPc>>
    /\ UNCHANGED <<trRemote, trRoot, trMaxDepth>>
    /\ TreeOnly

AtMostOneChild(remote) == \A b \in BlockIds : Len(remote[b]) <= 1

InitTree ==
    /\ trRemote \in Remotes
    /\ trRoot \in BlockIds
    /\ trMaxDepth \in (0..MaxDepthTried) \cup
                      (IF AtMostOneChild(trRemote) THEN {DEFAULT_MAX_DEPTH} ELSE {})
    /\ trPc = "call"
    /\ trStack = <<>>
    /\ trOut = <<>>

IdleTree ==
    /\ trRemote = [b \in BlockIds |-> <<>>]
    /\ trRoot = 1
    /\ trMaxDepth = 0
    /\ trPc = "idle"
    /\ trStack = <<>>
    /\ trOut = <<>>

NextTree == TreeCall \/ TreeDescend \/ TreeSkip \/ TreeReturn

(***************************************************************************)
(* chunk and appendBlocks                                                  *)
(***************************************************************************)
MAX_BLOCKS_PER_APPEND == 100
\* appendBlocks is given 0..MaxAppend blocks
MaxAppend == 201

\* lines 1059-1063: the loop `for (i = 0; i < arr.length; i += size)`
RECURSIVE ChunkFrom(_, _, _)
ChunkFrom(arr, size, i) ==
    IF i < Len(arr)
    THEN <<Slice(arr, i, i + size)>> \o ChunkFrom(arr, size, i + size)
    ELSE <<>>

RECURSIVE ChunkFromDropsTail(_, _, _)
ChunkFromDropsTail(arr, size, i) ==
    IF i + size <= Len(arr)
    THEN <<Slice(arr, i, i + size)>> \o ChunkFromDropsTail(arr, size, i + size)
    ELSE <<>>

chunkDropsTail(arr, size) == ChunkFromDropsTail(arr, size, 0)
chunk(arr, size) == ChunkFrom(arr, size, 0)

\* lines 1066-1068
AppendStart ==
    /\ apPc = "call"
    /\ apChunks' = chunk(apBlocks, MAX_BLOCKS_PER_APPEND)
    /\ apK' = 1
    /\ apPc' = IF chunk(apBlocks, MAX_BLOCKS_PER_APPEND) = <<>> THEN "done" ELSE "loop"
    /\ UNCHANGED <<apBlocks, apSent, apResults>>
    /\ AppendOnly

\* one iteration of the for loop whose PATCH request succeeds (1070-1077)
AppendSend ==
    /\ apPc = "loop"
    /\ apSent' = Append(apSent, apChunks[apK])
    /\ apResults' = Append(apResults, apK)
    /\ apK' = apK + 1
    /\ apPc' = IF apK + 1 > Len(apChunks) THEN "done" ELSE "loop"
    /\ UNCHANGED <<apBlocks, apChunks>>
    /\ AppendOnly

\* a loop that swallows the error of an iteration and goes on to the next
AppendThrowsContinues ==
    /\ apPc = "loop"
    /\ apK' = apK + 1
    /\ apPc' = IF apK + 1 > Len(apChunks) THEN "threw" ELSE "loop"
    /\ UNCHANGED <<apBlocks, apChunks, apSent, apResults>>
    /\ AppendOnly

\* the PATCH request of this iteration throws (after notionRequest's retries)
AppendThrows ==
    /\ apPc = "loop"
    /\ apPc' = "threw"
    /\ UNCHANGED <<apBlocks, apChunks, apK, apSent, apResults>>
    /\ AppendOnly

InitAppend ==
    /\ apBlocks \in {[k \in 1..n |-> k] : n \in 0..MaxAppend}
    /\ apPc = "call"
    /\ apChunks = <<>>
    /\ apK = 1
    /\ apSent = <<>>
    /\ apResults = <<>>

IdleAppend ==
    /\ apBlocks = <<>>
    /\ apPc = "idle"
    /\ apChunks = <<>>
    /\ apK = 1
    /\ apSent = <<>>
    /\ apResults = <<>>

NextAppend == AppendStart \/ AppendSend \/ AppendThrows

(***************************************************************************)
(* Strings                                                                 *)
(***************************************************************************)
\* the backtick character (the one character a string literal cannot hold)
BT == "BACKTICK"
\* the newline character
NL == "\n"

MinOf(S) == CHOOSE m \in S : \A x \in S : m <= x

\* s.indexOf(pat, from): the first 0-based index >= from where pat occurs
IndexOf(s, pat, from) ==
    LET hits == {k \in Max(from, 0)..(Len(s) - Len(pat)) :
                    SubSeq(s, k + 1, k + Len(pat)) = pat}
    IN  IF hits = {} THEN 0 - 1 ELSE MinOf(hits)

Includes(s, pat) == IndexOf(s, pat, 0) # 0 - 1
StartsWith(s, pat) == Len(s) >= Len(pat) /\ SubSeq(s, 1, Len(pat)) = pat

\* the concatenation of the sequences of ss
RECURSIVE Flatten(_)
Flatten(ss) ==
    IF Len(ss) = 0 THEN <<>>
    ELSE IF Len(ss) = 1 THEN ss[1]
    ELSE Flatten(SubSeq(ss, 1, Len(ss) \div 2))
         \o Flatten(SubSeq(ss, Len(ss) \div 2 + 1, Len(ss)))

\* parts.join(sep)
RECURSIVE Join(_, _)
Join(parts, sep) ==
    IF parts = <<>> THEN <<>>
    ELSE IF Len(parts) = 1 THEN parts[1]
    ELSE parts[1] \o sep \o Join(Tail(parts), sep)

(***************************************************************************)
(* Inline formatter: parseInlineFormatting and textToRichText              *)
(***************************************************************************)
SEGMENT_CAP == 2000

PlainAnnotations ==
    [bold |-> FALSE, italic |-> FALSE, strikethrough |-> FALSE,
     underline |-> FALSE, code |-> FALSE, color |-> "default"]
NoLink == [set |-> FALSE, url |-> <<>>]

\* a rich-text object as the parser builds it: text.content, text.link and
\* annotations; it has no plain_text and no href
TextSpan(content, ann) ==
    [type |-> "text", content |-> content, annotations |-> ann, link |-> NoLink]

SetAnnotation(parts, key) ==
    [k \in 1..Len(parts) |->
        [parts[k] EXCEPT !.annotations = [@ EXCEPT ![key] = TRUE]]]
SetLink(parts, url) ==
    [k \in 1..Len(parts) |-> [parts[k] EXCEPT !.link = [set |-> TRUE, url |-> url]]]

SpecialChars == {BT, "[", "*", "_", "~"}

\* lines 445-450: the end of the plain run that starts at i
PlainEnd(s, j) ==
    MinOf({k \in j..Len(s) : k = Len(s) \/ s[k + 1] \in SpecialChars} \cup {Max(j, Len(s))})

\* lines 474-484: merge adjacent parts with equal annotations and no link
RECURSIVE MergeParts(_, _)
MergeParts(merged, parts) ==
    IF parts = <<>> THEN merged
    ELSE LET part == Head(parts)
             n == Len(merged)
         IN  IF n > 0 /\ ~merged[n].link.set /\ ~part.link.set
                /\ merged[n].annotations = part.annotations
             THEN MergeParts([merged EXCEPT ![n].content = @ \o part.content],
                             Tail(parts))
             ELSE MergeParts(Append(merged, part), Tail(parts))

\* lines 493-501: the pieces of one over-long part
RECURSIVE SplitContent(_, _, _)
SplitContent(part, content, i) ==
    IF i < Len(content)
    THEN <<[part EXCEPT !.content = Slice(content, i, i + SEGMENT_CAP)]>>
         \o SplitContent(part, content, i + SEGMENT_CAP)
    ELSE <<>>

\* a formatter that leaves over-long parts whole
SplitPartsUncapped(merged) == merged

\* lines 487-503
RECURSIVE SplitParts(_)
SplitParts(merged) ==
    IF merged = <<>> THEN <<>>
    ELSE LET part == Head(merged)
         IN  (IF Len(part.content) <= SEGMENT_CAP THEN <<part>>
              ELSE SplitContent(part, part.content, 0))
             \o SplitParts(Tail(merged))

EmptySpan == TextSpan(<<>>, PlainAnnotations)

\* null and undefined as arguments: one-token sequences no string equals
Null == <<"(null)">>
Undefined == <<"(undefined)">>

\* String(text ?? "")
StringOrEmpty(text) == IF text \in {Null, Undefined} THEN <<>> ELSE text

\* a return without its fallback: final as it is
FinalOrEmptySpanNoFallback(final) == final

\* lines 505-509: final.length > 0 ? final : [the empty span]
FinalOrEmptySpan(final) == IF Len(final) > 0 THEN final ELSE <<EmptySpan>>

RECURSIVE InlineParts(_, _)
RECURSIVE parseInlineFormatting(_)

\* lines 359-471: the parts pushed by the scan from position i on
InlineParts(s, i) ==
    IF i >= Len(s) THEN <<>>
    ELSE
    LET c == s[i + 1]
        codeEnd == IndexOf(s, <<BT>>, i + 1)
        textEnd == IndexOf(s, <<"]", "(">>, i + 1)
        urlEnd  == IF textEnd # 0 - 1 THEN IndexOf(s, <<")">>, textEnd + 2) ELSE 0 - 1
        boldEnd == IndexOf(s, <<"*", "*">>, i + 2)
        strikeEnd == IndexOf(s, <<"~", "~">>, i + 2)
        italEnd == IndexOf(s, <<c>>, i + 1)
        j == PlainEnd(s, i)
    IN
    IF c = BT /\ codeEnd # 0 - 1
    THEN <<TextSpan(Slice(s, i + 1, codeEnd), [PlainAnnotations EXCEPT !.code = TRUE])>>
         \o InlineParts(s, codeEnd + 1)
    ELSE IF c = "[" /\ textEnd # 0 - 1 /\ urlEnd # 0 - 1
    THEN SetLink(parseInlineFormatting(Slice(s, i + 1, textEnd)),
                 Slice(s, textEnd + 2, urlEnd))
         \o InlineParts(s, urlEnd + 1)
    ELSE IF Slice(s, i, i + 2) = <<"*", "*">> /\ boldEnd # 0 - 1
    THEN SetAnnotation(parseInlineFormatting(Slice(s, i + 2, boldEnd)), "bold")
         \o InlineParts(s, boldEnd + 2)
    ELSE IF Slice(s, i, i + 2) = <<"~", "~">> /\ strikeEnd # 0 - 1
    THEN SetAnnotation(parseInlineFormatting(Slice(s, i + 2, strikeEnd)), "strikethrough")
         \o InlineParts(s, strikeEnd + 2)
    ELSE IF (c = "*" \/ c = "_") /\ italEnd # 0 - 1 /\ s[italEnd] # "\\"
    THEN SetAnnotation(parseInlineFormatting(Slice(s, i + 1, italEnd)), "italic")
         \o InlineParts(s, italEnd + 1)
    ELSE IF j > i
    THEN <<TextSpan(Slice(s, i, j), PlainAnnotations)>> \o InlineParts(s, j)
    ELSE <<TextSpan(<<c>>, PlainAnnotations)>> \o InlineParts(s, i + 1)

\* lines 351-510
parseInlineFormatting(text) ==
    FinalOrEmptySpan(SplitParts(MergeParts(<<>>, InlineParts(StringOrEmpty(text), 0))))

\* lines 512-528
RECURSIVE TextChunks(_, _)
TextChunks(s, i) ==
    IF i < Len(s)
    THEN <<TextSpan(Slice(s, i, i + SEGMENT_CAP), PlainAnnotations)>>
         \o TextChunks(s, i + SEGMENT_CAP)
    ELSE <<>>

textToRichText(text) ==
    LET out == TextChunks(StringOrEmpty(text), 0)
    IN  IF Len(out) > 0 THEN out ELSE <<EmptySpan>>

\* the text of a span sequence: its contents, concatenated
RECURSIVE Contents(_)
Contents(spans) ==
    IF spans = <<>> THEN <<>> ELSE Head(spans).content \o Contents(Tail(spans))

\* the inputs of the inline formatter: every string of at most MaxInlineLen
\* characters over InlineAlphabet, and the spec's example
MaxInlineLen == 4
InlineAlphabet == {"a", "*", "_", BT, "~", "[", "]", "(", ")", "\\"}
UnclosedBold ==
    <<"*", "*", "u", "n", "c", "l", "o", "s", "e", "d", " ", "b", "o", "l", "d">>
\* nested emphasis: bold around _x_, italic around __x__, and two further
\* nestings of the markers the code knows
BoldAroundItalic == <<"*", "*", "_", "x", "_", "*", "*">>
ItalicAroundBold == <<"*", "_", "_", "x", "_", "_", "*">>
StrikeAroundBold == <<"~", "~", "*", "*", "x", "*", "*", "~", "~">>
ItalicAroundStrike == <<"_", "~", "~", "x", "~", "~", "_">>
NestedEmphasis ==
    {BoldAroundItalic, ItalicAroundBold, StrikeAroundBold, ItalicAroundStrike}
\* texts longer than the segment cap: plain runs of one character more than
\* one cap, of exactly MaxSegments caps and of one character more than that,
\* then the longest of these in bold, as a link label, and after a short
\* plain prefix
MaxSegments == 2
PlainRun(n) == [k \in 1..n |-> "a"]
LongLengths ==
    {SEGMENT_CAP + 1, SEGMENT_CAP * MaxSegments, SEGMENT_CAP * MaxSegments + 1}
LongPlain == {PlainRun(n) : n \in LongLengths}
LongBold == <<"*", "*">> \o PlainRun(SEGMENT_CAP * MaxSegments + 1) \o <<"*", "*">>
LongLink == <<"[">> \o PlainRun(SEGMENT_CAP + 1) \o <<"]", "(", "u", ")">>
LongMixed == <<"b", " ">> \o LongBold
LongInputs == LongPlain \cup {LongBold, LongLink, LongMixed}
InlineInputs ==
    UNION {[1..n -> InlineAlphabet] : n \in 0..MaxInlineLen}
        \cup {UnclosedBold} \cup NestedEmphasis \cup LongInputs \cup {Null, Undefined}

InlineRun ==
    /\ inPc = "call"
    /\ inOut' = parseInlineFormatting(inText)
    /\ inPc' = "done"
    /\ UNCHANGED inText
    /\ InlineOnly

TextRun ==
    /\ inPc = "call"
    /\ inOut' = textToRichText(inText)
    /\ inPc' = "chunked"
    /\ UNCHANGED inText
    /\ InlineOnly

InitInline ==
    /\ inText \in InlineInputs
    /\ inPc = "call"
    /\ inOut = <<>>

IdleInline ==
    /\ inText = <<>>
    /\ inPc = "idle"
    /\ inOut = <<>>

NextInline == InlineRun \/ TextRun

(***************************************************************************)
(* Characters and lines                                                    *)
(***************************************************************************)
\* the characters \s matches, among those the model uses
WhiteSpace == {" ", "\t", "\r", NL}
Digits == {"0", "1", "2", "3", "4", "5", "6", "7", "8", "9"}
LowerLetters == <<"a", "b", "c", "d", "e", "f", "g", "h", "i", "j", "k", "l", "m", "n", "o", "p", "q", "r", "s", "t", "u", "v", "w", "x", "y", "z">>
UpperLetters == <<"A", "B", "C", "D", "E", "F", "G", "H", "I", "J", "K", "L", "M", "N", "O", "P", "Q", "R", "S", "T", "U", "V", "W", "X", "Y", "Z">>
\* the characters \w matches
WordChars ==
    {LowerLetters[k] : k \in 1..26} \cup {UpperLetters[k] : k \in 1..26}
        \cup Digits \cup {"_"}

UpperOf(c) ==
    IF \E k \in 1..26 : LowerLetters[k] = c
    THEN UpperLetters[CHOOSE k \in 1..26 : LowerLetters[k] = c]
    ELSE c
toUpperCase(s) == [k \in 1..Len(s) |-> UpperOf(s[k])]
LowerOf(c) ==
    IF \E k \in 1..26 : UpperLetters[k] = c
    THEN LowerLetters[CHOOSE k \in 1..26 : UpperLetters[k] = c]
    ELSE c

\* how many characters of s, from 0-based position from on, lie in class
RunLen(s, from, class) ==
    IF from >= Len(s) THEN 0
    ELSE MinOf({k \in from..Len(s) : k = Len(s) \/ s[k + 1] \notin class}) - from

TrimStart(s) == Slice(s, RunLen(s, 0, WhiteSpace), Len(s))
TrimEnd(s) ==
    LET kept == {k \in 1..Len(s) : s[k] \notin WhiteSpace}
    IN  IF kept = {} THEN <<>> ELSE SubSeq(s, 1, CHOOSE m \in kept : \A x \in kept : x <= m)
Trim(s) == TrimEnd(TrimStart(s))

\* s.split(sep) for a one-character separator
RECURSIVE Split(_, _)
Split(s, sep) ==
    LET k == IndexOf(s, <<sep>>, 0)
    IN  IF k = 0 - 1 THEN <<s>>
        ELSE <<Slice(s, 0, k)>> \o Split(Slice(s, k + 1, Len(s)), sep)

\* s.replace(/\r\n/g, "\n")
ReplaceCRLF(s) ==
    Flatten([k \in 1..Len(s) |->
                IF s[k] = "\r" /\ k < Len(s) /\ s[k + 1] = NL THEN <<>> ELSE <<s[k]>>])

\* /^\s*$/
IsBlank(line) == RunLen(line, 0, WhiteSpace) = Len(line)

\* line.trim().startsWith('|')
StartsWithPipe(line) == StartsWith(Trim(line), <<"|">>)

DetailsOpen == <<"<", "d", "e", "t", "a", "i", "l", "s", ">">>
DetailsClose == <<"<", "/", "d", "e", "t", "a", "i", "l", "s", ">">>
SummaryOpen == <<"<", "s", "u", "m", "m", "a", "r", "y", ">">>
SummaryClose == <<"<", "/", "s", "u", "m", "m", "a", "r", "y", ">">>
Fence3 == <<BT, BT, BT>>
PlainTextLang == <<"p", "l", "a", "i", "n", " ", "t", "e", "x", "t">>

\* line.trim().startsWith('<details>')
StartsWithDetails(line) == StartsWith(Trim(line), DetailsOpen)

\* /^(\s*)([-*]|\d+\.)\s+/ : indent, marker and the white space after it
ListPrefix(line) ==
    LET indent == RunLen(line, 0, WhiteSpace)
        digits == RunLen(line, indent, Digits)
        markerLen ==
            IF indent < Len(line) /\ line[indent + 1] \in {"-", "*"} THEN 1
            ELSE IF digits >= 1 /\ indent + digits < Len(line)
                    /\ line[indent + digits + 1] = "."
            THEN digits + 1
            ELSE 0
        ws == RunLen(line, indent + markerLen, WhiteSpace)
    IN  [ok |-> markerLen > 0 /\ ws >= 1,
         indent |-> indent,
         marker |-> Slice(line, indent, indent + markerLen),
         ws |-> ws,
         rest |-> Slice(line, indent + markerLen + ws, Len(line))]

\* /^(\s*)([-*]|\d+\.)\s+(.+)$/ : \s+ gives back one character when nothing
\* else is left for (.+)
ListItem(line) ==
    LET m == ListPrefix(line)
    IN  [ok |-> m.ok /\ (m.rest # <<>> \/ m.ws >= 2),
         indent |-> m.indent,
         marker |-> m.marker,
         text |-> IF m.rest # <<>> THEN m.rest ELSE Slice(line, Len(line) - 1, Len(line))]

\* /^\[([ xX])\]\s+(.+)$/ on the text of a list item
TodoMatch(text) ==
    LET ws == RunLen(text, 3, WhiteSpace)
        rest == Slice(text, 3 + ws, Len(text))
    IN  [ok |-> /\ Len(text) >= 3
                /\ text[1] = "[" /\ text[2] \in {" ", "x", "X"} /\ text[3] = "]"
                /\ ws >= 1
                /\ (rest # <<>> \/ ws >= 2),
         mark |-> IF Len(text) >= 2 THEN text[2] ELSE " ",
         text |-> IF rest # <<>> THEN rest ELSE Slice(text, Len(text) - 1, Len(text))]

\* /^(#{1,3})\s+(.*)$/
HeadingMatch(line) ==
    LET h == RunLen(line, 0, {"#"})
        ws == RunLen(line, h, WhiteSpace)
    IN  [ok |-> h >= 1 /\ h <= 3 /\ ws >= 1,
         level |-> h,
         text |-> Slice(line, h + ws, Len(line))]

\* /^```(\w+)?\s*$/
FenceMatch(line) ==
    LET w == RunLen(line, 3, WordChars)
        ws == RunLen(line, 3 + w, WhiteSpace)
    IN  [ok |-> StartsWith(line, Fence3) /\ 3 + w + ws = Len(line),
         lang |-> IF w > 0 THEN Slice(line, 3, 3 + w) ELSE PlainTextLang]

\* /^\s*---+\s*$/
IsDivider(line) ==
    LET t == Trim(line)
    IN  Len(t) >= 3 /\ \A k \in 1..Len(t) : t[k] = "-"

\* /^!\[(.*?)\]\((.*?)\)$/
ImageMatch(line) ==
    LET k == IndexOf(line, <<"]", "(">>, 2)
    IN  [ok |-> /\ StartsWith(line, <<"!", "[">>)
                /\ line[Len(line)] = ")"
                /\ k # 0 - 1
                /\ k + 2 <= Len(line) - 1,
         alt |-> Slice(line, 2, k),
         url |-> Slice(line, k + 2, Len(line) - 1)]

\* /^>\s*\[!(\w+)\]\s*(.*)/
CalloutMatch(line) ==
    LET ws1 == RunLen(line, 1, WhiteSpace)
        open == 1 + ws1
        w == RunLen(line, open + 2, WordChars)
        close == open + 2 + w
        ws2 == RunLen(line, close + 1, WhiteSpace)
    IN  [ok |-> /\ StartsWith(line, <<">">>)
                /\ Slice(line, open, open + 2) = <<"[", "!">>
                /\ w >= 1
                /\ Slice(line, close, close + 1) = <<"]">>,
         admonition |-> Slice(line, open + 2, close),
         text |-> Slice(line, close + 1 + ws2, Len(line))]

\* line.replace(/^>\s?/, '')
StripQuote(line) ==
    IF StartsWith(line, <<">">>)
    THEN IF Len(line) >= 2 /\ line[2] \in WhiteSpace
         THEN Slice(line, 2, Len(line)) ELSE Slice(line, 1, Len(line))
    ELSE line

\* a test that takes no line for a separator
IsSeparatorRowNever(line) == FALSE

\* /^\|[\s:-]+\|/ on a trimmed line
IsSeparatorRow(line) ==
    LET run == RunLen(line, 1, WhiteSpace \cup {":", "-"})
    IN  /\ StartsWith(line, <<"|">>)
        /\ run >= 1
        /\ Slice(line, 1 + run, 2 + run) = <<"|">>

(***************************************************************************)
(* Block parser: parseMarkdownTable, parseCallout, parseToggle,            *)
(* parseNestedList and parseMarkdownToBlocks                               *)
(*                                                                         *)
(* A block {type, [type]: {...}} is the record [type, data]; the divider,  *)
(* whose object is {}, has no data.  The fields a block may or may not     *)
(* have (checked, children) are present or absent in data as in the code.  *)
(***************************************************************************)
EmojiMemo == "(memo)"
EmojiBulb == "(bulb)"
EmojiExclamation == "(exclamation)"
EmojiWarning == "(warning)"
EmojiThought == "(thought)"

\* lines 696-698: the cells of one table line
TableCells(line) ==
    LET parts == Split(line, "|")
    IN  IF Len(parts) <= 2 THEN <<>>
        ELSE [k \in 1..(Len(parts) - 2) |-> Trim(parts[k + 1])]

\* lines 686-704: the rows collected from line i on, and where the scan stops
RECURSIVE TableScan(_, _)
TableScan(lines, i) ==
    IF i >= Len(lines) THEN [rows |-> <<>>, i |-> i]
    ELSE LET line == Trim(lines[i + 1])
         IN  IF ~StartsWith(line, <<"|">>) THEN [rows |-> <<>>, i |-> i]
             ELSE LET rest == TableScan(lines, i + 1)
                      cells == TableCells(line)
                  IN  IF IsSeparatorRow(line) \/ cells = <<>> THEN rest
                      ELSE [rows |-> <<cells>> \o rest.rows, i |-> rest.i]

TableRow(row) ==
    [type |-> "table_row",
     data |-> [cells |-> [c \in 1..Len(row) |-> parseInlineFormatting(row[c])]]]

\* lines 681-740; ok = FALSE is the null result
parseMarkdownTable(lines, startIdx) ==
    LET scan == TableScan(lines, startIdx)
        rows == scan.rows
    IN  IF rows = <<>> THEN [ok |-> FALSE]
        ELSE [ok |-> TRUE,
              block |->
                [type |-> "table",
                 data |-> [table_width |-> Len(rows[1]),
                           has_column_header |-> TRUE,
                           has_row_header |-> FALSE,
                           children |-> [r \in 1..Len(rows) |-> TableRow(rows[r])]]],
              linesConsumed |-> scan.i - startIdx]

\* a mapping that looks the keyword up as it is written
CalloutConfigCaseSensitive(admonition) ==
    IF admonition = <<"N", "O", "T", "E">> THEN [emoji |-> EmojiMemo, color |-> <<"b", "l", "u", "e", "_", "b", "a", "c", "k", "g", "r", "o", "u", "n", "d">>]
    ELSE IF admonition = <<"W", "A", "R", "N", "I", "N", "G">> THEN [emoji |-> EmojiWarning, color |-> <<"y", "e", "l", "l", "o", "w", "_", "b", "a", "c", "k", "g", "r", "o", "u", "n", "d">>]
    ELSE [emoji |-> EmojiThought, color |-> <<"g", "r", "a", "y", "_", "b", "a", "c", "k", "g", "r", "o", "u", "n", "d">>]

\* lines 751-759
CalloutConfig(admonition) ==
    LET key == toUpperCase(admonition)
    IN  IF key = <<"N", "O", "T", "E">> THEN [emoji |-> EmojiMemo, color |-> <<"b", "l", "u", "e", "_", "b", "a", "c", "k", "g", "r", "o", "u", "n", "d">>]
        ELSE IF key = <<"T", "I", "P">> THEN [emoji |-> EmojiBulb, color |-> <<"g", "r", "e", "e", "n", "_", "b", "a", "c", "k", "g", "r", "o", "u", "n", "d">>]
        ELSE IF key = <<"I", "M", "P", "O", "R", "T", "A", "N", "T">>
        THEN [emoji |-> EmojiExclamation, color |-> <<"r", "e", "d", "_", "b", "a", "c", "k", "g", "r", "o", "u", "n", "d">>]
        ELSE IF key = <<"W", "A", "R", "N", "I", "N", "G">>
        THEN [emoji |-> EmojiWarning, color |-> <<"y", "e", "l", "l", "o", "w", "_", "b", "a", "c", "k", "g", "r", "o", "u", "n", "d">>]
        ELSE IF key = <<"C", "A", "U", "T", "I", "O", "N">>
        THEN [emoji |-> EmojiWarning, color |-> <<"o", "r", "a", "n", "g", "e", "_", "b", "a", "c", "k", "g", "r", "o", "u", "n", "d">>]
        ELSE [emoji |-> EmojiThought, color |-> <<"g", "r", "a", "y", "_", "b", "a", "c", "k", "g", "r", "o", "u", "n", "d">>]

\* lines 763-768: the quote lines that follow the first line of a callout
RECURSIVE CalloutScan(_, _)
CalloutScan(lines, i) ==
    IF i < Len(lines) /\ StartsWith(lines[i + 1], <<">">>)
    THEN LET line == StripQuote(lines[i + 1])
             rest == CalloutScan(lines, i + 1)
         IN  [content |-> (IF line # <<>> THEN <<line>> ELSE <<>>) \o rest.content,
              i |-> rest.i]
    ELSE [content |-> <<>>, i |-> i]

\* lines 742-781
parseCallout(lines, startIdx) ==
    LET match == CalloutMatch(lines[startIdx + 1])
        config == CalloutConfig(match.admonition)
        scan == CalloutScan(lines, startIdx + 1)
        content == <<match.text>> \o scan.content
    IN  IF ~match.ok THEN [ok |-> FALSE]
        ELSE [ok |-> TRUE,
              block |->
                [type |-> "callout",
                 data |-> [rich_text |-> parseInlineFormatting(Join(content, <<" ">>)),
                           icon |-> [type |-> "emoji", emoji |-> config.emoji],
                           color |-> config.color]],
              linesConsumed |-> scan.i - startIdx]

\* /<summary>(.*?)<\/summary>/
SummaryMatch(line) ==
    LET a == IndexOf(line, SummaryOpen, 0)
        b == IF a = 0 - 1 THEN 0 - 1 ELSE IndexOf(line, SummaryClose, a + Len(SummaryOpen))
    IN  [ok |-> b # 0 - 1, summary |-> Slice(line, a + Len(SummaryOpen), b)]

\* lines 793-809: the scan of a <details> element from line i on
RECURSIVE ToggleScan(_, _, _)
ToggleScan(lines, i, summary) ==
    IF i >= Len(lines) THEN [summary |-> summary, content |-> <<>>, i |-> i]
    ELSE LET line == lines[i + 1]
             cleaned == Trim(line)
         IN  IF Includes(line, SummaryOpen)
             THEN ToggleScan(lines, i + 1,
                             IF SummaryMatch(line).ok THEN SummaryMatch(line).summary
                             ELSE summary)
             ELSE IF Includes(line, DetailsClose)
             THEN [summary |-> summary, content |-> <<>>, i |-> i + 1]
             ELSE LET rest == ToggleScan(lines, i + 1, summary)
                  IN  [rest EXCEPT !.content =
                          (IF ~Includes(line, DetailsOpen) /\ cleaned # <<>>
                           THEN <<cleaned>> ELSE <<>>) \o @]

\* lines 882-896: the block of one list item
ListItemBlock(blockType, itemText, isTodo, checked, children) ==
    [type |-> blockType,
     data |->
        IF isTodo
        THEN IF children # <<>>
             THEN [rich_text |-> parseInlineFormatting(itemText),
                   checked |-> checked, children |-> children]
             ELSE [rich_text |-> parseInlineFormatting(itemText), checked |-> checked]
        ELSE IF children # <<>>
             THEN [rich_text |-> parseInlineFormatting(itemText), children |-> children]
             ELSE [rich_text |-> parseInlineFormatting(itemText)]]

\* A result carries hung = TRUE when the code does not return: a loop that
\* repeats an iteration without changing anything it reads.
RECURSIVE ListFrom(_, _, _)
RECURSIVE LookAhead(_, _, _)

\* lines 875-876 and the iterations after them
LookAfterNested(lines, j, currentIndent, nested) ==
    IF nested.hung \/ nested.endIndex = j
    THEN [children |-> nested.items, j |-> j, hung |-> TRUE]
    ELSE [LookAhead(lines, nested.endIndex, currentIndent)
            EXCEPT !.children = nested.items \o @]

\* a look-ahead that takes an item at the same indent for a child as well
LookAtSameIndent(lines, j, currentIndent, nextMatch) ==
    IF ~nextMatch.ok THEN LookAhead(lines, j + 1, currentIndent)
    ELSE IF nextMatch.indent >= currentIndent
    THEN LookAfterNested(lines, j, currentIndent,
                         ListFrom(lines, j, nextMatch.indent))
    ELSE [children |-> <<>>, j |-> j, hung |-> FALSE]

\* lines 867-879: one iteration of the look-ahead, nextMatch being the match
\* of line j
LookAt(lines, j, currentIndent, nextMatch) ==
    IF ~nextMatch.ok THEN LookAhead(lines, j + 1, currentIndent)
    ELSE IF nextMatch.indent > currentIndent
    THEN LookAfterNested(lines, j, currentIndent,
                         ListFrom(lines, j, nextMatch.indent))
    ELSE [children |-> <<>>, j |-> j, hung |-> FALSE]

\* lines 864-880: the look-ahead for the children of an item at currentIndent
LookAhead(lines, j, currentIndent) ==
    IF j >= Len(lines) THEN [children |-> <<>>, j |-> j, hung |-> FALSE]
    ELSE LookAt(lines, j, currentIndent, ListPrefix(lines[j + 1]))

\* lines 849-859 and 882-896: the block of the item matched by match
ItemBlock(match, isTodo, children) ==
    ListItemBlock(IF isTodo.ok THEN "to_do"
                  ELSE IF match.marker \in {<<"-">>, <<"*">>} THEN "bulleted_list_item"
                  ELSE "numbered_list_item",
                  IF isTodo.ok THEN isTodo.text ELSE match.text,
                  isTodo.ok,
                  isTodo.ok /\ LowerOf(isTodo.mark) = "x",
                  children)

\* lines 898-899 and the iterations after them
ListAfterItem(lines, i, baseIndent, match, look) ==
    IF look.hung THEN [items |-> <<>>, endIndex |-> i, hung |-> TRUE]
    ELSE [ListFrom(lines, IF look.j > i + 1 THEN look.j ELSE i + 1, baseIndent)
            EXCEPT !.items = <<ItemBlock(match, TodoMatch(match.text), look.children)>>
                             \o @]

\* lines 833-880: one iteration of the loop, match being the match of line i
ListAt(lines, i, baseIndent, match) ==
    IF ~match.ok \/ match.indent # baseIndent
    THEN [items |-> <<>>, endIndex |-> i, hung |-> FALSE]
    ELSE ListAfterItem(lines, i, baseIndent, match,
                       LookAhead(lines, i + 1, match.indent))

\* lines 831-900: the loop of parseNestedList from line i on
ListFrom(lines, i, baseIndent) ==
    IF i >= Len(lines) THEN [items |-> <<>>, endIndex |-> i, hung |-> FALSE]
    ELSE ListAt(lines, i, baseIndent, ListItem(lines[i + 1]))

\* lines 826-903
parseNestedList(lines, startIdx, baseIndent) == ListFrom(lines, startIdx, baseIndent)

\* a fence body that ends at a blank line as well
RECURSIVE CodeEndAtBlank(_, _)
CodeEndAtBlank(lines, i) ==
    IF i < Len(lines) /\ ~StartsWith(lines[i + 1], Fence3) /\ ~IsBlank(lines[i + 1])
    THEN CodeEndAtBlank(lines, i + 1)
    ELSE i

\* lines 955-958: the end of the body of a code fence
RECURSIVE CodeEnd(_, _)
CodeEnd(lines, i) ==
    IF i < Len(lines) /\ ~StartsWith(lines[i + 1], Fence3) THEN CodeEnd(lines, i + 1)
    ELSE i

\* lines 1029-1037: the lines that end a paragraph
ParaBreak(l) ==
    \/ IsBlank(l)
    \/ StartsWithPipe(l)
    \/ StartsWith(l, Fence3)
    \/ IsDivider(l)
    \/ HeadingMatch(l).ok
    \/ ListPrefix(l).ok
    \/ StartsWith(l, <<">">>)
    \/ ImageMatch(l).ok
    \/ StartsWithDetails(l)

\* lines 1027-1041
RECURSIVE ParaEnd(_, _)
ParaEnd(lines, i) ==
    IF i < Len(lines) /\ ~ParaBreak(lines[i + 1]) THEN ParaEnd(lines, i + 1) ELSE i

\* line 906
SplitLines(md) == Split(ReplaceCRLF(md), NL)

HeadingType(level) ==
    IF level = 1 THEN "heading_1" ELSE IF level = 2 THEN "heading_2" ELSE "heading_3"

RECURSIVE MainIteration(_, _)
RECURSIVE ParseFrom(_, _)
RECURSIVE parseMarkdownToBlocks(_)
RECURSIVE parseToggle(_, _)

\* lines 783-824
parseToggle(lines, startIdx) ==
    LET scan == ToggleScan(lines, startIdx, <<>>)
        innerBlocks == parseMarkdownToBlocks(Join(scan.content, <<NL>>))
    IN  [ok |-> TRUE,
         hung |-> innerBlocks.hung,
         block |->
            [type |-> "toggle",
             data |-> [rich_text |->
                          parseInlineFormatting(IF scan.summary # <<>> THEN scan.summary
                                                ELSE <<"T", "o", "g", "g", "l", "e">>),
                       children |-> innerBlocks.blocks]],
         linesConsumed |-> scan.i - startIdx]

\* lines 910-1052: one iteration of the main loop with the cursor at line i:
\* the blocks it pushes and the cursor it leaves
MainIteration(lines, i) ==
    LET line == lines[i + 1]
        Pushed(blocks, next) == [blocks |-> blocks, next |-> next, hung |-> FALSE]
        table == parseMarkdownTable(lines, i)
        callout == parseCallout(lines, i)
        toggle == parseToggle(lines, i)
        codeStart == FenceMatch(line)
        codeEnd == CodeEnd(lines, i + 1)
        h == HeadingMatch(line)
        img == ImageMatch(line)
        list == parseNestedList(lines, i, 0)
        paraEnd == ParaEnd(lines, i)
        text == TrimEnd(Join(Slice(lines, i, paraEnd), <<NL>>))
    IN  IF IsBlank(line) THEN Pushed(<<>>, i + 1)
        ELSE IF StartsWithPipe(line) /\ table.ok
        THEN Pushed(<<table.block>>, i + table.linesConsumed)
        ELSE IF CalloutMatch(line).ok /\ callout.ok
        THEN Pushed(<<callout.block>>, i + callout.linesConsumed)
        ELSE IF StartsWithDetails(line) /\ toggle.ok
        THEN [blocks |-> <<toggle.block>>, next |-> i + toggle.linesConsumed,
              hung |-> toggle.hung]
        ELSE IF codeStart.ok
        THEN Pushed(<<[type |-> "code",
                       data |-> [language |-> codeStart.lang,
                                 rich_text |->
                                    textToRichText(Join(Slice(lines, i + 1, codeEnd),
                                                        <<NL>>))]]>>,
                    IF codeEnd < Len(lines) THEN codeEnd + 1 ELSE codeEnd)
        ELSE IF IsDivider(line) THEN Pushed(<<[type |-> "divider"]>>, i + 1)
        ELSE IF h.ok
        THEN Pushed(<<[type |-> HeadingType(h.level),
                       data |-> [rich_text |-> parseInlineFormatting(h.text)]]>>,
                    i + 1)
        ELSE IF img.ok
        THEN Pushed(<<[type |-> "image",
                       data |-> [type |-> "external",
                                 external |-> [url |-> img.url],
                                 caption |-> parseInlineFormatting(img.alt)]]>>,
                    i + 1)
        ELSE IF ListPrefix(line).ok
        THEN [blocks |-> list.items, next |-> list.endIndex, hung |-> list.hung]
        ELSE IF StartsWith(line, <<">">>) /\ ~CalloutMatch(line).ok
        THEN Pushed(<<[type |-> "quote",
                       data |-> [rich_text |->
                                    parseInlineFormatting(StripQuote(line))]]>>,
                    i + 1)
        ELSE IF paraEnd > i /\ text # <<>>
        THEN Pushed(<<[type |-> "paragraph",
                       data |-> [rich_text |-> parseInlineFormatting(text)]]>>,
                    paraEnd)
        ELSE Pushed(<<>>, paraEnd)

\* an iteration that does not return, or returns with the cursor where it
\* was, is repeated forever
Spins(lines, i) ==
    MainIteration(lines, i).hung \/ MainIteration(lines, i).next <= i

\* blocks.push(...): the blocks of an iteration before those of the rest
PushedBefore(blocks, rest) == [blocks |-> blocks \o rest.blocks, hung |-> rest.hung]

\* the main loop after the iteration at line i, whose outcome is step: an
\* iteration that spins (see Spins) is never left
ParseAfter(lines, i, step) ==
    IF step.hung \/ step.next <= i THEN [blocks |-> <<>>, hung |-> TRUE]
    ELSE PushedBefore(step.blocks, ParseFrom(lines, step.next))

\* lines 910-1054: the main loop from line i on
ParseFrom(lines, i) ==
    IF i >= Len(lines) THEN [blocks |-> <<>>, hung |-> FALSE]
    ELSE ParseAfter(lines, i, MainIteration(lines, i))

\* lines 905-1055
parseMarkdownToBlocks(md) == ParseFrom(SplitLines(md), 0)

(***************************************************************************)
(* Renderer: escapeMd, applyAnnotations, richTextToMarkdown,               *)
(* blockToMarkdown and blocksToMarkdown                                    *)
(***************************************************************************)
\* text.replace(/\\/g, "\\\\")
escapeMd(text) ==
    Flatten([k \in 1..Len(text) |->
                IF text[k] = "\\" THEN <<"\\", "\\">> ELSE <<text[k]>>])

\* out.replace(/`/g, "\\`")
EscapeBackticks(text) ==
    Flatten([k \in 1..Len(text) |->
                IF text[k] = BT THEN <<"\\", BT>> ELSE <<text[k]>>])

\* lines 320-329
applyAnnotations(text, ann) ==
    LET code == IF ann.code THEN <<BT>> \o EscapeBackticks(text) \o <<BT>> ELSE text
        bold == IF ann.bold THEN <<"*", "*">> \o code \o <<"*", "*">> ELSE code
        italic == IF ann.italic THEN <<"*">> \o bold \o <<"*">> ELSE bold
        strike == IF ann.strikethrough THEN <<"~", "~">> \o italic \o <<"~", "~">> ELSE italic
    IN  IF ann.underline THEN <<"<", "u", ">">> \o strike \o <<"<", "/", "u", ">">> ELSE strike

\* rt.plain_text ?? "": the field the API adds to the rich text it returns
PlainTextOf(rt) == IF "plain_text" \in DOMAIN rt THEN rt.plain_text ELSE <<>>

\* line 340
UrlOf(rt) ==
    IF rt.type = "text" /\ rt.link.set /\ rt.link.url # <<>> THEN rt.link.url
    ELSE IF "href" \in DOMAIN rt THEN rt.href
    ELSE <<>>

\* lines 334-345: the markdown of one rich-text object
SpanToMarkdown(rt) ==
    LET txt == applyAnnotations(escapeMd(PlainTextOf(rt)), rt.annotations)
        url == UrlOf(rt)
    IN  IF url # <<>> THEN <<"[">> \o txt \o <<"]", "(">> \o url \o <<")">> ELSE txt

\* lines 331-347
richTextToMarkdown(richText) ==
    Flatten([k \in 1..Len(richText) |-> SpanToMarkdown(richText[k])])

NonEmpty(s) == s # <<>>
Repeat(s, n) == Flatten([k \in 1..n |-> s])

\* block[type] || {} and the fields read from it
HasObj(block) == "data" \in DOMAIN block
ObjHas(block, field) == HasObj(block) /\ field \in DOMAIN block.data
IdOf(block) == IF "id" \in DOMAIN block THEN block.id ELSE <<"u", "n", "d", "e", "f", "i", "n", "e", "d">>

\* lines 618-626: the admonition keyword of a callout color
CalloutPrefix(color) ==
    IF Includes(color, <<"b", "l", "u", "e">>) THEN <<"T", "I", "P">>
    ELSE IF Includes(color, <<"r", "e", "d">>) THEN <<"I", "M", "P", "O", "R", "T", "A", "N", "T">>
    ELSE IF Includes(color, <<"y", "e", "l", "l", "o", "w">>) \/ Includes(color, <<"o", "r", "a", "n", "g", "e">>) THEN <<"W", "A", "R", "N", "I", "N", "G">>
    ELSE <<"N", "O", "T", "E">>

\* lines 641-656: the markdown of the rows of a table
TableMarkdown(pad, cells, hasHeader) ==
    LET width == Len(cells[1])
        RowLine(r) == pad \o <<"|", " ">> \o Join(cells[r], <<" ", "|", " ">>) \o <<" ", "|">> \o <<NL>>
        SepLine == pad \o <<"|">> \o Repeat(<<" ", "-", "-", "-", " ", "|">>, width) \o <<NL>>
    IN  TrimEnd(Flatten([r \in 1..Len(cells) |->
                            RowLine(r) \o (IF r = 1 /\ hasHeader THEN SepLine ELSE <<>>)]))

\* the comment that stands for a block: <!-- Unsupported block type: T (id) -->
UnsupportedComment(pad, type, id) ==
    pad \o <<"<", "!", "-", "-", " ", "U", "n", "s", "u", "p", "p", "o", "r", "t", "e", "d", " ", "b", "l", "o", "c", "k", " ", "t", "y", "p", "e", ":", " ">> \o <<type>> \o <<" ", "(">>
        \o id \o <<")", " ", "-", "-", ">">>

\* a default branch without its first line: the comment whatever the text
DefaultBlockCommentOnly(pad, txt, childText, type, id) ==
    UnsupportedComment(pad, type, id)

\* lines 667-670: the default branch of the switch; childText is
\* renderChildren(indent)
DefaultBlock(pad, txt, childText, type, id) ==
    IF txt # <<>> THEN TrimEnd(pad \o txt \o childText)
    ELSE UnsupportedComment(pad, type, id)

\* lines 566-672
RECURSIVE blockToMarkdown(_, _)
blockToMarkdown(block, indent) ==
    LET pad == [k \in 1..indent |-> " "]
        type == block.type
        rt == IF ObjHas(block, "rich_text") THEN block.data.rich_text ELSE <<>>
        txt == richTextToMarkdown(rt)
        children == IF "children" \in DOMAIN block THEN block.children ELSE <<>>
        ChildParts(childIndent) ==
            SelectSeq([k \in 1..Len(children) |-> blockToMarkdown(children[k], childIndent)],
                      NonEmpty)
        renderChildren(childIndent) ==
            LET joined == Join(ChildParts(childIndent), <<NL>>)
            IN  IF joined # <<>> THEN <<NL>> \o joined ELSE <<>>
        Heading(marks) == TrimEnd(pad \o marks \o <<" ">> \o txt) \o renderChildren(indent)
        codeText ==
            IF ObjHas(block, "rich_text")
            THEN Flatten([k \in 1..Len(rt) |-> PlainTextOf(rt[k])]) ELSE <<>>
        lang == IF ObjHas(block, "language") THEN block.data.language ELSE <<>>
        icon == IF "icon" \in DOMAIN block /\ block.icon.type = "emoji"
                THEN block.icon.emoji ELSE EmojiBulb
        color == IF ObjHas(block, "color") /\ block.data.color # <<>>
                 THEN block.data.color ELSE <<"d", "e", "f", "a", "u", "l", "t">>
        rows == SelectSeq(children, LAMBDA c : c.type = "table_row")
        cells == [r \in 1..Len(rows) |->
                    IF ObjHas(rows[r], "cells")
                    THEN [c \in 1..Len(rows[r].data.cells) |->
                            richTextToMarkdown(rows[r].data.cells[c])]
                    ELSE <<>>]
        imageUrl == IF ObjHas(block, "external") THEN block.data.external.url
                    ELSE IF ObjHas(block, "file") THEN block.data.file.url
                    ELSE <<>>
        caption == IF ObjHas(block, "caption") THEN richTextToMarkdown(block.data.caption)
                   ELSE <<>>
        title == IF ObjHas(block, "title") /\ block.data.title # <<>>
                 THEN block.data.title ELSE <<"U", "n", "t", "i", "t", "l", "e", "d">>
    IN  IF type = "paragraph"
        THEN TrimEnd((IF txt # <<>> THEN pad \o txt ELSE <<>>) \o renderChildren(indent))
        ELSE IF type = "heading_1" THEN Heading(<<"#">>)
        ELSE IF type = "heading_2" THEN Heading(<<"#", "#">>)
        ELSE IF type = "heading_3" THEN Heading(<<"#", "#", "#">>)
        ELSE IF type = "bulleted_list_item"
        THEN TrimEnd(pad \o <<"-", " ">> \o txt \o renderChildren(indent + 2))
        ELSE IF type = "numbered_list_item"
        THEN TrimEnd(pad \o <<"1", ".", " ">> \o txt \o renderChildren(indent + 3))
        ELSE IF type = "to_do"
        THEN TrimEnd(pad \o <<"-", " ", "[">>
                     \o (IF ObjHas(block, "checked") /\ block.data.checked
                         THEN <<"x">> ELSE <<" ">>)
                     \o <<"]", " ">> \o txt \o renderChildren(indent + 2))
        ELSE IF type = "quote"
        THEN TrimEnd(pad \o <<">", " ">> \o txt \o renderChildren(indent))
        ELSE IF type = "code"
        THEN pad \o Fence3 \o lang \o <<NL>> \o codeText \o <<NL>> \o pad \o Fence3
        ELSE IF type = "divider" THEN pad \o <<"-", "-", "-">>
        ELSE IF type = "callout"
        THEN TrimEnd(pad \o <<">", " ", "[", "!">> \o CalloutPrefix(color) \o <<"]", " ">> \o <<icon>>
                     \o (IF txt # <<>> THEN <<NL>> \o pad \o <<">", " ">> \o txt ELSE <<>>)
                     \o renderChildren(indent))
        ELSE IF type = "toggle"
        THEN pad \o DetailsOpen \o <<NL>> \o pad \o SummaryOpen
             \o (IF txt # <<>> THEN txt ELSE <<"D", "e", "t", "a", "i", "l", "s">>) \o SummaryClose
             \o <<NL, NL>> \o Join(ChildParts(indent + 2), <<NL>>) \o <<NL, NL>>
             \o pad \o DetailsClose
        ELSE IF type = "table"
        THEN IF Len(rows) = 0 THEN <<>>
             ELSE TableMarkdown(pad, cells,
                                ObjHas(block, "has_column_header")
                                    /\ block.data.has_column_header)
        ELSE IF type = "image"
        THEN pad \o <<"!", "[">> \o caption \o <<"]", "(">> \o imageUrl \o <<")">>
        ELSE IF type = "child_page"
        THEN pad \o <<"-", " ">> \o title \o <<" ", "(", "c", "h", "i", "l", "d", " ", "p", "a", "g", "e", ":", " ">> \o IdOf(block) \o <<")">>
        ELSE DefaultBlock(pad, txt, renderChildren(indent), type, IdOf(block))

\* a document whose newline runs are left as they are
CollapseNewlinesNone(s) == s

\* s.replace(/\n{3,}/g, "\n\n")
\* of a run of three newlines or more, the first two stay
CollapseNewlines(s) ==
    Flatten([k \in 1..Len(s) |->
                IF k >= 3 /\ s[k] = NL /\ s[k - 1] = NL /\ s[k - 2] = NL THEN <<>>
                ELSE <<s[k]>>])

\* lines 674-677
blocksToMarkdown(blocks) ==
    LET parts == SelectSeq([k \in 1..Len(blocks) |-> blockToMarkdown(blocks[k], 0)],
                           NonEmpty)
    IN  Trim(CollapseNewlines(Join(parts, <<NL, NL>>))) \o <<NL>>

(***************************************************************************)
(* cmdExportMd: the tree getBlockTree fetched is rendered by               *)
(* blocksToMarkdown.  A fetched block carries its id, its rich text has    *)
(* plain_text, and the children getBlockTree attached sit at its top       *)
(* level.                                                                  *)
(***************************************************************************)
\* a rich-text object as the API returns it (href null)
FetchedSpan(content) ==
    [type |-> "text", plain_text |-> content, annotations |-> PlainAnnotations,
     link |-> NoLink]

\* the types of the fetched blocks: three the switch knows and three it does
\* not (template carries rich text at the API, column_list and embed none)
ModelledTypes ==
    {"paragraph", "heading_1", "heading_2", "heading_3", "bulleted_list_item",
     "numbered_list_item", "to_do", "quote", "code", "divider", "callout", "toggle",
     "table", "image", "child_page"}
FetchedTypes ==
    {"paragraph", "bulleted_list_item", "divider", "template", "column_list", "embed"}

\* block[type]: without rich_text, with an empty one, with one of one span
FetchedData ==
    {[url |-> <<"u">>], [rich_text |-> <<>>], [rich_text |-> <<FetchedSpan(<<"x">>)>>]}

FetchedChild ==
    [type |-> "paragraph", id |-> <<"i", "2">>,
     data |-> [rich_text |-> <<FetchedSpan(<<"c">>)>>]]

\* the interiors of the fetched code blocks: no line, one line, two lines,
\* two lines around one blank line and around two blank lines
CodeTexts ==
    {<<>>, <<"a">>, <<"a", NL, "b">>, <<"a", NL, NL, "b">>, <<"a", NL, NL, NL, "b">>}
FetchedCode ==
    {[type |-> "code", id |-> <<"i", "3">>,
      data |-> [rich_text |-> <<FetchedSpan(t)>>, language |-> <<"j", "s">>]] :
        t \in CodeTexts}

FetchedBlocks ==
    {[type |-> t, id |-> <<"i", "1">>, data |-> d] : t \in FetchedTypes, d \in FetchedData}
    \cup {[type |-> t, id |-> <<"i", "1">>, data |-> d, children |-> <<FetchedChild>>] :
            t \in FetchedTypes, d \in FetchedData}
    \cup FetchedCode

MaxRenderBlocks == 2
FetchedTrees == UNION {[1..n -> FetchedBlocks] : n \in 1..MaxRenderBlocks}

\* lines 1261-1262 and 674-677: rdParts is blocks.map(b => blockToMarkdown(b, 0))
ExportRender ==
    /\ rdPc = "call"
    /\ rdParts' = [k \in 1..Len(rdBlocks) |-> blockToMarkdown(rdBlocks[k], 0)]
    /\ rdOut' = blocksToMarkdown(rdBlocks)
    /\ rdPc' = "done"
    /\ UNCHANGED rdBlocks
    /\ RenderOnly

InitRender ==
    /\ rdBlocks \in FetchedTrees
    /\ rdPc = "call"
    /\ rdParts = <<>>
    /\ rdOut = <<>>

IdleRender ==
    /\ rdBlocks = <<>>
    /\ rdPc = "idle"
    /\ rdParts = <<>>
    /\ rdOut = <<>>

NextRender == ExportRender

(***************************************************************************)
(* Plaid server: POST /api/exchange-token and DELETE /api/accounts/:id.    *)
(* Every handler is a coroutine of the one event loop; it runs from one    *)
(* await to the next without interruption.  A token is written as its      *)
(* item_id; the file is read and written whole.                            *)
(***************************************************************************)
MaxHandlers == 2
Handlers == 1..MaxHandlers

\* the requests tried: two banks connected, two stored items removed
Requests ==
    {[kind |-> "post", item |-> "a"], [kind |-> "post", item |-> "b"],
     [kind |-> "delete", item |-> "c"], [kind |-> "delete", item |-> "d"]}
Befores == {<<>>, <<"c">>, <<"c", "d">>}

ItemsOf(tokens) == {tokens[k] : k \in 1..Len(tokens)}

Handler(request) ==
    [kind |-> request.kind, item |-> request.item, pc |-> "start",
     tokens |-> <<>>, status |-> 0]

\* server.js lines 52-62: itemPublicTokenExchange and accountsGet answer
ExchangeOk(h) ==
    /\ plReq[h].kind = "post" /\ plReq[h].pc = "start"
    /\ plReq' = [plReq EXCEPT ![h].pc = "addToken"]
    /\ UNCHANGED <<plFile, plBefore>>
    /\ PlaidOnly

\* server.js lines 74-76: one of the two Plaid calls throws
ExchangeFails(h) ==
    /\ plReq[h].kind = "post" /\ plReq[h].pc = "start"
    /\ plReq' = [plReq EXCEPT ![h].pc = "done", ![h].status = 500]
    /\ UNCHANGED <<plFile, plBefore>>
    /\ PlaidOnly

\* tokens.js lines 28-29: readTokens has returned, the token is pushed
AddTokenRead(h) ==
    /\ plReq[h].kind = "post" /\ plReq[h].pc = "addToken"
    /\ plReq' = [plReq EXCEPT ![h].tokens = Append(plFile, plReq[h].item),
                              ![h].pc = "writeTokens"]
    /\ UNCHANGED <<plFile, plBefore>>
    /\ PlaidOnly

\* tokens.js lines 30-31 and server.js lines 72-73: writeTokens has written
AddTokenWrite(h) ==
    /\ plReq[h].kind = "post" /\ plReq[h].pc = "writeTokens"
    /\ plFile' = plReq[h].tokens
    /\ plReq' = [plReq EXCEPT ![h].pc = "done", ![h].status = 200]
    /\ UNCHANGED plBefore
    /\ PlaidOnly

\* server.js lines 82-85: readTokens has returned, the item is looked up
DeleteRead(h) ==
    /\ plReq[h].kind = "delete" /\ plReq[h].pc = "start"
    /\ plReq' = IF plReq[h].item \in ItemsOf(plFile)
                THEN [plReq EXCEPT ![h].tokens = plFile, ![h].pc = "itemRemove"]
                ELSE [plReq EXCEPT ![h].pc = "done", ![h].status = 404]
    /\ UNCHANGED <<plFile, plBefore>>
    /\ PlaidOnly

\* server.js lines 88-95: itemRemove has answered or thrown, the tokens read
\* before it are filtered
DeleteRemove(h) ==
    /\ plReq[h].kind = "delete" /\ plReq[h].pc = "itemRemove"
    /\ plReq' = [plReq EXCEPT
                    ![h].tokens = SelectSeq(plReq[h].tokens,
                                            LAMBDA t : t # plReq[h].item),
                    ![h].pc = "writeTokens"]
    /\ UNCHANGED <<plFile, plBefore>>
    /\ PlaidOnly

\* server.js lines 96-98: writeTokens has written
DeleteWrite(h) ==
    /\ plReq[h].kind = "delete" /\ plReq[h].pc = "writeTokens"
    /\ plFile' = plReq[h].tokens
    /\ plReq' = [plReq EXCEPT ![h].pc = "done", ![h].status = 200]
    /\ UNCHANGED plBefore
    /\ PlaidOnly

\* the requests arrive together, each about an item of its own
InitPlaid ==
    /\ plBefore \in Befores
    /\ plFile = plBefore
    /\ plReq \in {[h \in Handlers |-> Handler(rs[h])] :
                     rs \in {f \in [Handlers -> Requests] :
                                \A g, h \in Handlers : g # h => f[g] # f[h]}}

IdlePlaid ==
    /\ plBefore = <<>>
    /\ plFile = <<>>
    /\ plReq = <<>>

NextPlaid ==
    \/ \E h \in Handlers : ExchangeOk(h)
    \/ \E h \in Handlers : ExchangeFails(h)
    \/ \E h \in Handlers : AddTokenRead(h)
    \/ \E h \in Handlers : AddTokenWrite(h)
    \/ \E h \in Handlers : DeleteRead(h)
    \/ \E h \in Handlers : DeleteRemove(h)
    \/ \E h \in Handlers : DeleteWrite(h)

(***************************************************************************)
(* The parser as a process: the main loop of parseMarkdownToBlocks one     *)
(* iteration at a time, then the export of its blocks by blocksToMarkdown  *)
(* and a second parse of the exported text.                                *)
(***************************************************************************)
\* the lines documents are made of
Palette ==
    { <<"h", "e", "l", "l", "o">>, <<>>, <<"-", " ", "a">>, <<" ", " ", "-", " ", "b">>, <<"1", ".", " ", "c">>, <<"-", " ", "[", "x", "]", " ", "d">>,
      <<"|", " ", "h", " ", "|", " ", "k", " ", "|">>, <<"|", "-", "-", "-", "|", "-", "-", "-", "|">>, <<">", " ", "[", "!", "N", "O", "T", "E", "]", " ", "n">>, <<">", " ", "q">>,
      <<"<", "d", "e", "t", "a", "i", "l", "s", ">">>, <<"<", "s", "u", "m", "m", "a", "r", "y", ">", "s", "<", "/", "s", "u", "m", "m", "a", "r", "y", ">">>, <<"<", "/", "d", "e", "t", "a", "i", "l", "s", ">">>,
      <<BT, BT, BT, "j", "s">>, <<BT, BT, BT>>, <<"-", "-", "-">>, <<"#", "#", " ", "t">>, <<"!", "[", "i", "]", "(", "u", ")">>, <<"*", "*", "b", "*", "*">>, <<"-", " ">> }

MaxDocLines == 2

\* documents the palette does not reach within MaxDocLines lines
LongDocs ==
    { <<<<"-", " ", "a">>, <<" ", " ", "-", " ", "b">>, <<" ", " ", " ", " ", "-", " ", "c">>, <<"-", " ", "d">>>>,
      <<<<"|", " ", "h", " ", "|", " ", "k", " ", "|">>, <<"|", "-", "-", "-", "|", "-", "-", "-", "|">>, <<"|", " ", "x", " ", "|", " ", "y", " ", "|">>>>,
      <<<<"<", "d", "e", "t", "a", "i", "l", "s", ">">>, <<"<", "s", "u", "m", "m", "a", "r", "y", ">", "s", "<", "/", "s", "u", "m", "m", "a", "r", "y", ">">>, <<"h", "e", "l", "l", "o">>, <<"<", "/", "d", "e", "t", "a", "i", "l", "s", ">">>>>,
      <<<<BT, BT, BT, "j", "s">>, <<"x">>, <<>>, <<BT, BT, BT>>, <<"h", "e", "l", "l", "o">>>>,
      <<<<"-", " ", "a">>, <<" ", " ", "-", " ">>>>,
      <<<<"<", "d", "e", "t", "a", "i", "l", "s", ">">>, <<"|", "-", "-", "-", "|">>, <<"<", "/", "d", "e", "t", "a", "i", "l", "s", ">">>>> }

\* lists: up to MaxListLines bulleted items, the first at indent 0 and each
\* other at any of the indents, the k-th item holding the k-th letter
MaxListLines == 4
ListIndents == {0, 2, 4}
ListLetters == <<"a", "b", "c", "d", "e", "f">>
ListLine(indent, k) == [n \in 1..indent |-> " "] \o <<"-", " ", ListLetters[k]>>
ListDocs ==
    UNION {{[k \in 1..n |-> ListLine(f[k], k)] :
                f \in {g \in [1..n -> ListIndents] : g[1] = 0}} :
           n \in 1..MaxListLines}

\* tables: up to MaxTableLines pipe lines, each a two-cell row, a separator,
\* a one-cell row or an indented row with an aligned separator look
MaxTableLines == 3
HeaderLine == <<"|", " ", "h", " ", "|", " ", "k", " ", "|">>
SeparatorLine == <<"|", "-", "-", "-", "|", "-", "-", "-", "|">>
BodyLine == <<"|", " ", "x", " ", "|", " ", "y", " ", "|">>
\* a data row whose first cell is blank: |  | b |
BlankFirstCellLine == <<"|", " ", " ", "|", " ", "b", " ", "|">>
TableLines ==
    {HeaderLine, SeparatorLine, BodyLine, <<" ", "|", "z", "|">>,
     <<"|", " ", ":", "-", ":", " ", "|">>, BlankFirstCellLine}
TableDocs == UNION {[1..n -> TableLines] : n \in 1..MaxTableLines}

\* callouts: one admonition line per keyword, in upper, lower and mixed
\* case, with an unknown keyword, and one followed by a quote line
CalloutText == <<"d", "i", "s", "k", " ", "l", "o", "w">>
CalloutKeywords ==
    {<<"N", "O", "T", "E">>, <<"T", "I", "P">>, <<"I", "M", "P", "O", "R", "T", "A", "N", "T">>, <<"W", "A", "R", "N", "I", "N", "G">>, <<"C", "A", "U", "T", "I", "O", "N">>,
     <<"w", "a", "r", "n", "i", "n", "g">>, <<"N", "o", "t", "e">>, <<"I", "N", "F", "O">>}
CalloutLine(keyword) == <<">", " ", "[", "!">> \o keyword \o <<"]", " ">> \o CalloutText
CalloutDocs ==
    {<<CalloutLine(kw)>> : kw \in CalloutKeywords}
        \cup {<<CalloutLine(<<"W", "A", "R", "N", "I", "N", "G">>), <<">", " ", "q">>>>}

\* a toggle that holds another toggle, and text after the inner one
NestedToggle ==
    <<<<"<", "d", "e", "t", "a", "i", "l", "s", ">">>, <<"<", "s", "u", "m", "m", "a", "r", "y", ">", "s", "<", "/", "s", "u", "m", "m", "a", "r", "y", ">">>, <<"<", "d", "e", "t", "a", "i", "l", "s", ">">>, <<"h", "e", "l", "l", "o">>,
      <<"<", "/", "d", "e", "t", "a", "i", "l", "s", ">">>, <<"a", "f", "t", "e", "r">>, <<"<", "/", "d", "e", "t", "a", "i", "l", "s", ">">>>>

Documents ==
    {Join(ls, <<NL>>) : ls \in UNION {[1..n -> Palette] : n \in 1..MaxDocLines}}
        \cup {Join(ls, <<NL>>) : ls \in LongDocs}
        \cup {Join(ls, <<NL>>) : ls \in ListDocs}
        \cup {Join(ls, <<NL>>) : ls \in TableDocs}
        \cup {Join(ls, <<NL>>) : ls \in CalloutDocs}
        \cup {Join(NestedToggle, <<NL>>)}

\* line 906-908
ParseStart ==
    /\ mdPc = "call"
    /\ mdLines' = SplitLines(mdText)
    /\ mdBlocks' = <<>>
    /\ mdI' = 0
    /\ mdPc' = "loop"
    /\ UNCHANGED <<mdText, mdFirst, mdRound>>
    /\ ParseOnly

\* lines 910-1052: one iteration of the main loop.  An iteration that does not
\* return leaves the program where it is.
ParseStep ==
    /\ mdPc = "loop"
    /\ mdI < Len(mdLines)
    /\ LET step == MainIteration(mdLines, mdI)
       IN  IF step.hung THEN UNCHANGED <<mdBlocks, mdI>>
           ELSE /\ mdBlocks' = mdBlocks \o step.blocks
                /\ mdI' = step.next
    /\ UNCHANGED <<mdPc, mdText, mdLines, mdFirst, mdRound>>
    /\ ParseOnly

\* line 1054
ParseReturn ==
    /\ mdPc = "loop"
    /\ mdI >= Len(mdLines)
    /\ mdPc' = "parsed"
    /\ UNCHANGED <<mdText, mdLines, mdI, mdBlocks, mdFirst, mdRound>>
    /\ ParseOnly

\* the export of the parsed blocks, handed back to the parser
Export ==
    /\ mdPc = "parsed"
    /\ mdRound = 1
    /\ mdFirst' = mdBlocks
    /\ mdText' = blocksToMarkdown(mdBlocks)
    /\ mdRound' = 2
    /\ mdPc' = "call"
    /\ UNCHANGED <<mdLines, mdI, mdBlocks>>
    /\ ParseOnly

InitParse ==
    /\ mdText \in Documents
    /\ mdPc = "call"
    /\ mdLines = <<>>
    /\ mdI = 0
    /\ mdBlocks = <<>>
    /\ mdFirst = <<>>
    /\ mdRound = 1

IdleParse ==
    /\ mdPc = "idle"
    /\ mdText = <<>>
    /\ mdLines = <<>>
    /\ mdI = 0
    /\ mdBlocks = <<>>
    /\ mdFirst = <<>>
    /\ mdRound = 1

NextParse == ParseStart \/ ParseStep \/ ParseReturn \/ Export

(***************************************************************************)
(* Commands: cmdCreateMd and cmdUpdatePage with their --set properties.    *)
(* A command is a coroutine that stops at every await of a network call;   *)
(* cmCalls lists the requests it has sent.  The requests succeed here (the *)
(* adapter above models how they fail); --template, --position and the     *)
(* blocks of the markdown body are left out of the request.                *)
(***************************************************************************)
ComputedTypes ==
    {"rollup", "formula", "created_by", "created_time", "last_edited_by",
     "last_edited_time"}

\* the properties of the data source the remote holds: one of each computed
\* type (named after the type), one of a type the switch does not know
\* (files) and four that can be set
Schema ==
    [k \in ComputedTypes \cup {"Name", "Notes", "Stage", "Done", "Files"} |->
        IF k \in ComputedTypes THEN k
        ELSE IF k = "Name" THEN "title"
        ELSE IF k = "Notes" THEN "rich_text"
        ELSE IF k = "Stage" THEN "select"
        ELSE IF k = "Done" THEN "checkbox"
        ELSE "files"]

\* the value every --set pair carries, and the title
RawValue == <<"v">>
TitleText == <<"t">>

NoError == [thrown |-> FALSE]
Error(message, arg) == [thrown |-> TRUE, message |-> message, arg |-> arg]

\* lines 1128-1174, for the raw value RawValue (a string that is none of
\* true, false, null, a number or JSON, so coercePrimitive returns it as it
\* is); arg is the text the message interpolates
buildPropertyValue(type) ==
    IF type \in ComputedTypes
    THEN [ok |-> FALSE, error |-> Error("Property type cannot be set via the API", type)]
    ELSE IF type \in {"title", "rich_text"}
    THEN [ok |-> TRUE, value |-> [kind |-> type, rich_text |-> parseInlineFormatting(RawValue)]]
    ELSE IF type \in {"select", "status"}
    THEN [ok |-> TRUE, value |-> [kind |-> type, name |-> RawValue]]
    ELSE IF type = "multi_select"
    THEN [ok |-> TRUE, value |-> [kind |-> type, names |-> <<RawValue>>]]
    ELSE IF type = "date"
    THEN [ok |-> TRUE, value |-> [kind |-> type, start |-> RawValue]]
    ELSE IF type = "checkbox"
    THEN [ok |-> TRUE, value |-> [kind |-> type, checkbox |-> TRUE]]
    ELSE IF type = "number"
    THEN [ok |-> TRUE, value |-> [kind |-> type, number |-> "NaN"]]
    ELSE IF type \in {"url", "email", "phone_number"}
    THEN [ok |-> TRUE, value |-> [kind |-> type, string |-> RawValue]]
    ELSE IF type \in {"people", "relation"}
    THEN [ok |-> TRUE, value |-> [kind |-> type, ids |-> <<RawValue>>]]
    ELSE [ok |-> FALSE, error |-> Error("Unsupported property type for --set", type)]

\* lines 1096-1107: a --set argument is [eq, key]: whether it holds an = sign
\* and the trimmed text before it
parseSetArgs(set) ==
    LET bad == {k \in 1..Len(set) : ~set[k].eq \/ set[k].key = ""}
    IN  IF bad = {} THEN [ok |-> TRUE, pairs |-> [k \in 1..Len(set) |-> set[k].key]]
        ELSE IF ~set[MinOf(bad)].eq
        THEN [ok |-> FALSE, error |-> Error("Invalid --set (expected Prop=Value)", "set")]
        ELSE [ok |-> FALSE, error |-> Error("Invalid --set (missing property name)", "set")]

\* lines 1176-1187: the first pair that fails decides
buildPropertiesFromSetArgs(schema, setPairs) ==
    LET bad == {k \in 1..Len(setPairs) :
                  \/ setPairs[k] \notin DOMAIN schema
                  \/ ~buildPropertyValue(schema[setPairs[k]]).ok}
        keys == {setPairs[k] : k \in 1..Len(setPairs)}
    IN  IF bad = {}
        THEN [ok |-> TRUE, out |-> [key \in keys |-> buildPropertyValue(schema[key]).value]]
        ELSE IF setPairs[MinOf(bad)] \notin DOMAIN schema
        THEN [ok |-> FALSE,
              error |-> Error("Unknown property on data source", setPairs[MinOf(bad)])]
        ELSE [ok |-> FALSE, error |-> buildPropertyValue(schema[setPairs[MinOf(bad)]]).error]

\* lines 1088-1094
findTitlePropertyNameFromSchema(schema) ==
    IF \E k \in DOMAIN schema : schema[k] = "title"
    THEN CHOOSE k \in DOMAIN schema : schema[k] = "title"
    ELSE "Name"

TitleValue == [kind |-> "title", rich_text |-> parseInlineFormatting(TitleText)]

\* { ...properties, ...extra }
Merge(properties, extra) ==
    [k \in DOMAIN properties \cup DOMAIN extra |->
        IF k \in DOMAIN extra THEN extra[k] ELSE properties[k]]
NoProperties == [k \in {} |-> TitleValue]

Request(method, path) == [method |-> method, path |-> path]
Write(method, path, properties) ==
    [method |-> method, path |-> path, properties |-> properties]

Throw(error) ==
    /\ cmError' = error
    /\ cmPc' = "failed"
    /\ UNCHANGED <<cmArgs, cmRemote, cmProps, cmCalls>>

\* lines 1316-1329: up to the await of getDataSource
CreateStart ==
    /\ cmPc = "call"
    /\ cmArgs.cmd = "create-md"
    /\ IF cmArgs.title \in {"none", "empty"}
       THEN Throw(Error("create-md requires --title", "title"))
       ELSE IF cmArgs.parent = "none"
       THEN Throw(Error("Provide either --parent-page or --parent-data-source", "parent"))
       ELSE IF cmArgs.parent = "page_id"
       THEN /\ cmProps' = [title |-> TitleValue]
            /\ cmPc' = "body"
            /\ UNCHANGED <<cmArgs, cmRemote, cmCalls, cmError>>
       ELSE /\ cmCalls' = Append(cmCalls, Request("GET", "/v1/data_sources/id"))
            /\ cmPc' = "schema"
            /\ UNCHANGED <<cmArgs, cmRemote, cmProps, cmError>>
    /\ CmdOnly

\* lines 1329-1336: the schema has arrived
CreateSchema ==
    /\ cmPc = "schema"
    /\ LET setPairs == parseSetArgs(cmArgs.set)
           extra == buildPropertiesFromSetArgs(cmRemote.schema, setPairs.pairs)
       IN  IF ~setPairs.ok THEN Throw(setPairs.error)
           ELSE IF ~extra.ok THEN Throw(extra.error)
           ELSE /\ cmProps' =
                     Merge([k \in {findTitlePropertyNameFromSchema(cmRemote.schema)}
                              |-> TitleValue],
                           extra.out)
                /\ cmPc' = "body"
                /\ UNCHANGED <<cmArgs, cmRemote, cmCalls, cmError>>
    /\ CmdOnly

\* lines 1338-1353: the markdown is read and the page is posted
CreateBody ==
    /\ cmPc = "body"
    /\ IF ~cmArgs.md
       THEN Throw(Error("Provide markdown via --md, --md-file, or --md-stdin", "md"))
       ELSE /\ cmCalls' = Append(cmCalls, Write("POST", "/v1/pages", cmProps))
            /\ cmPc' = "done"
            /\ UNCHANGED <<cmArgs, cmRemote, cmProps, cmError>>
    /\ CmdOnly

\* lines 1400-1408: the last part of cmdUpdatePage, properties being built
UpdateSend(properties) ==
    IF DOMAIN properties = {}
    THEN Throw(Error("update-page requires --title or --set", "title"))
    ELSE /\ cmCalls' = Append(cmCalls, Write("PATCH", "/v1/pages/id", properties))
         /\ cmProps' = properties
         /\ cmPc' = "done"
         /\ UNCHANGED <<cmArgs, cmRemote, cmError>>

\* lines 1389-1408: cmdUpdatePage from if (set) on, up to its next await
UpdateSet(properties) ==
    IF cmArgs.set = <<>> THEN UpdateSend(properties)
    ELSE IF ~parseSetArgs(cmArgs.set).ok THEN Throw(parseSetArgs(cmArgs.set).error)
    ELSE IF cmRemote.parentType = "data_source_id"
    THEN /\ cmCalls' = Append(cmCalls, Request("GET", "/v1/data_sources/id"))
         /\ cmProps' = properties
         /\ cmPc' = "setSchema"
         /\ UNCHANGED <<cmArgs, cmRemote, cmError>>
    ELSE Throw(Error("--set can only be used on pages in databases (data sources)", "set"))

\* lines 1377-1385: the title of update-page, which may be empty
UpdateTitle ==
    [kind |-> "title",
     rich_text |-> parseInlineFormatting(IF cmArgs.title = "empty" THEN <<>> ELSE TitleText)]

\* lines 1366-1370
UpdateStart ==
    /\ cmPc = "call"
    /\ cmArgs.cmd = "update-page"
    /\ cmCalls' = Append(cmCalls, Request("GET", "/v1/pages/id"))
    /\ cmPc' = "page"
    /\ UNCHANGED <<cmArgs, cmRemote, cmProps, cmError>>
    /\ CmdOnly

\* lines 1371-1388: the page has arrived
UpdatePage ==
    /\ cmPc = "page"
    /\ IF cmArgs.title = "none" THEN UpdateSet(NoProperties)
       ELSE IF cmRemote.parentType \in {"page_id", "workspace"}
       THEN UpdateSet([title |-> UpdateTitle])
       ELSE /\ cmCalls' = Append(cmCalls, Request("GET", "/v1/data_sources/id"))
            /\ cmPc' = "titleSchema"
            /\ UNCHANGED <<cmArgs, cmRemote, cmProps, cmError>>
    /\ CmdOnly

\* lines 1381-1385: the schema asked for the title has arrived
UpdateTitleSchema ==
    /\ cmPc = "titleSchema"
    /\ UpdateSet([k \in {findTitlePropertyNameFromSchema(cmRemote.schema)} |-> UpdateTitle])
    /\ CmdOnly

\* lines 1392-1395: the schema asked for --set has arrived
UpdateSetSchema ==
    /\ cmPc = "setSchema"
    /\ LET extra == buildPropertiesFromSetArgs(cmRemote.schema,
                                               parseSetArgs(cmArgs.set).pairs)
       IN  IF ~extra.ok THEN Throw(extra.error)
           ELSE UpdateSend(Merge(cmProps, extra.out))
    /\ CmdOnly

\* the command lines tried: up to MaxSetArgs --set arguments, each naming a
\* property of the schema or the unknown Ghost, or lacking its name or its =
MaxSetArgs == 2
SetKeys == DOMAIN Schema \cup {"Ghost"}
SetArgs ==
    {[eq |-> TRUE, key |-> k] : k \in SetKeys \cup {""}} \cup {[eq |-> FALSE, key |-> "Stage"]}
SetLists == UNION {[1..n -> SetArgs] : n \in 0..MaxSetArgs}

\* the markdown update-block is given: the empty string, a blank line, one
\* paragraph, a divider, a list item with a child, two blocks, three blocks,
\* and a list marker without text, on which the parser does not return
UpdateBlockDocs ==
    {Join(ls, <<NL>>) :
        ls \in {<<<<>>>>, <<<<>>, <<" ">>>>, <<<<"h", "e", "l", "l", "o">>>>, <<<<"-", "-", "-">>>>,
                <<<<"-", " ", "a">>, <<" ", " ", "-", " ", "b">>>>,
                <<<<"h", "e", "l", "l", "o">>, <<>>, <<"#", "#", " ", "t">>>>,
                <<<<"#", "#", " ", "t">>, <<"-", "-", "-">>, <<"-", " ", "a">>>>,
                <<<<"-", " ">>>>}}

\* a guard that only refuses the empty parse
BlockCountErrorZeroOnly(n) ==
    IF n = 0 THEN "No blocks parsed from markdown" ELSE ""

\* lines 1418-1424: the message of the error thrown for n parsed blocks, ""
\* when none is thrown
BlockCountError(n) ==
    IF n = 0 THEN "No blocks parsed from markdown"
    ELSE IF n > 1 THEN "update-block only supports single block updates"
    ELSE ""

\* blockData[type]: the object of a block, {} for the divider
ObjOf(block) == IF HasObj(block) THEN block.data ELSE [k \in {} |-> <<>>]

\* lines 1418-1437: cmdUpdateBlock once the markdown is parsed, through its
\* one await and the print that follows; on a markdown the parser does not
\* return from, the command stays in the call
UpdateBlockParsed(parsed) ==
    /\ ~parsed.hung
    /\ IF BlockCountError(Len(parsed.blocks)) # ""
       THEN Throw(Error(BlockCountError(Len(parsed.blocks)), "md"))
       ELSE /\ cmCalls' =
                 Append(cmCalls,
                        [method |-> "PATCH", path |-> "/v1/blocks/id",
                         body |-> [k \in {parsed.blocks[1].type} |-> ObjOf(parsed.blocks[1])]])
            /\ cmPc' = "done"
            /\ UNCHANGED <<cmArgs, cmRemote, cmProps, cmError>>

\* lines 1413-1438
UpdateBlock ==
    /\ cmPc = "call"
    /\ cmArgs.cmd = "update-block"
    /\ IF ~cmArgs.md
       THEN Throw(Error("Provide markdown via --md, --md-file, or --md-stdin", "md"))
       ELSE UpdateBlockParsed(parseMarkdownToBlocks(cmArgs.markdown))
    /\ CmdOnly

InitCmd ==
    /\ cmArgs \in [cmd : {"create-md", "update-page"},
                   title : {"none", "empty", "t"},
                   parent : {"none", "page_id", "data_source_id"},
                   set : SetLists,
                   md : BOOLEAN,
                   markdown : {<<>>}]
                  \cup [cmd : {"update-block"}, title : {"none"}, parent : {"none"},
                        set : {<<>>}, md : BOOLEAN, markdown : UpdateBlockDocs]
    /\ cmArgs.cmd = "update-page" => (cmArgs.parent = "none" /\ cmArgs.md)
    /\ cmRemote \in [schema : {Schema},
                     parentType : {"page_id", "workspace", "data_source_id"}]
    /\ cmArgs.cmd \in {"create-md", "update-block"} => cmRemote.parentType = "page_id"
    /\ cmPc = "call"
    /\ cmProps = NoProperties
    /\ cmCalls = <<>>
    /\ cmError = NoError

IdleCmd ==
    /\ cmArgs = [cmd |-> "none"]
    /\ cmRemote = [schema |-> Schema, parentType |-> "page_id"]
    /\ cmPc = "idle"
    /\ cmProps = NoProperties
    /\ cmCalls = <<>>
    /\ cmError = NoError

NextCmd ==
    \/ CreateStart
    \/ CreateSchema
    \/ CreateBody
    \/ UpdateStart
    \/ UpdatePage
    \/ UpdateTitleSchema
    \/ UpdateSetSchema
    \/ UpdateBlock

(***************************************************************************)
(* Properties of the HTTP adapter                                          *)
(***************************************************************************)
RetryableStatuses == {429, 500, 502, 503, 504}

\* C3: with the calls of one coroutine awaited one after the other, any two
\* consecutive requests (first attempts and retries alike) are issued at
\* least MIN_INTERVAL_MS apart.
ThrottleSpacing ==
    (Cardinality(callers) = 1 /\ prevSentAt >= 0)
        => lastSentAt - prevSentAt >= MIN_INTERVAL_MS

\* the second call of the coroutine is retrying, its retry issued exactly
\* MIN_INTERVAL_MS after the request before it
ThrottleSpacingWitness ==
    /\ callsLeft["c1"] = 0
    /\ pc["c1"] = "fetch"
    /\ attempt["c1"] >= 1
    /\ sentTotal >= 4
    /\ lastSentAt - prevSentAt = MIN_INTERVAL_MS

\* C4: with two notionRequest calls in flight at once, the shared gate still
\* keeps any two consecutive requests at least MIN_INTERVAL_MS apart.
ConcurrentSpacing ==
    (Cardinality(callers) > 1 /\ prevSentAt >= 0)
        => lastSentAt - prevSentAt >= MIN_INTERVAL_MS

\* C5: a call retries only after a 429 or a 500/502/503/504, issues at most
\* MAX_RETRIES + 1 requests, throws straight after any other non-OK status
\* (after one request when it is the first response) and returns as soon as
\* a response is OK.
RetryCeiling ==
    \A p \in callers :
        /\ reqCount[p] <= MAX_RETRIES + 1
        /\ (pc[p] = "backoff" \/ attempt[p] > 0)
              => \/ lastResp[p].status \in RetryableStatuses
                 \/ pc[p] \in {"returned", "threw"}
        /\ (lastResp[p].status \notin RetryableStatuses \cup {0, OkStatus})
              => /\ pc[p] = "threw"
                 /\ result[p].kind = "error"
                 /\ reqCount[p] = attempt[p] + 1
                 /\ (attempt[p] = 0 => reqCount[p] = 1)
        /\ (lastResp[p].status = OkStatus) <=> (pc[p] = "returned")
        /\ (pc[p] = "returned") => result[p].kind = "ok"

\* the seventh request of a call is answered OK
RetryCeilingWitness ==
    /\ pc["c1"] = "returned"
    /\ reqCount["c1"] = MAX_RETRIES + 1
    /\ attempt["c1"] = MAX_RETRIES

\* C6: a call all of whose attempts got a retryable status ends by throwing
\* the structured error {status, code, message, body} of the last response;
\* no call ends with the generic 'Request failed after retries'.
RetryExhaustion ==
    \A p \in callers :
        /\ result[p].kind # "generic"
        /\ (pc[p] = "threw" /\ result[p].kind # "network"
              /\ lastResp[p].status \in RetryableStatuses)
              => /\ reqCount[p] = MAX_RETRIES + 1
                 /\ result[p].kind = "error"
                 /\ result[p].status = lastResp[p].status
                 /\ result[p].body = lastResp[p].body
                 /\ result[p].code =
                       (IF lastResp[p].body.isObject
                        THEN lastResp[p].body.code ELSE "undefined")
                 /\ result[p].message =
                       (IF lastResp[p].body.isObject /\ lastResp[p].body.hasMessage
                        THEN <<lastResp[p].body.message>>
                        ELSE <<"HTTP", lastResp[p].status>>)

\* seven requests, the last answered 503 with a non-JSON body
RetryExhaustionWitness ==
    /\ pc["c1"] = "threw"
    /\ reqCount["c1"] = MAX_RETRIES + 1
    /\ result["c1"].kind = "error"
    /\ result["c1"].status = 503
    /\ result["c1"].message = <<"HTTP", 503>>

(***************************************************************************)
(* Properties of the pagination loops                                      *)
(***************************************************************************)
\* a page after which the loop must stop
StopsLoop(res) == res.isNull \/ ~res.has_more \/ res.next_cursor = NoCursor

RECURSIVE PageResults(_)
PageResults(pages) ==
    IF pages = <<>> THEN <<>> ELSE Head(pages).results \o PageResults(Tail(pages))

\* C7: both loops stop at the first page that reports has_more false, or
\* has_more true with no next_cursor, and the results collected are those of
\* every page fetched, in order.
PaginationTermination ==
    /\ \A k \in 1..(Len(pgPages) - 1) : ~StopsLoop(pgPages[k])
    /\ (Len(pgPages) > 0 /\ StopsLoop(pgPages[Len(pgPages)])) => pgPc = "done"
    /\ pgResults = PageResults(pgPages)

\* has_more is true on both pages and the second page carries no cursor
PaginationWitness ==
    /\ pgKind = "listBlockChildren"
    /\ pgPc = "done"
    /\ Len(pgPages) = 2
    /\ pgPages[1].has_more /\ pgPages[2].has_more
    /\ pgPages[2].next_cursor = NoCursor
    /\ Len(pgResults) = 2

(***************************************************************************)
(* Properties of getBlockTree                                              *)
(***************************************************************************)
\* no block of a tree below depth maxDepth - 1 has a children field, and a
\* block at depth < maxDepth lacks it only when it has no children
RECURSIVE WithinDepth(_, _, _)
WithinDepth(blocks, depth, maxDepth) ==
    \A k \in 1..Len(blocks) :
        IF "children" \in DOMAIN blocks[k]
        THEN depth < maxDepth /\ WithinDepth(blocks[k].children, depth + 1, maxDepth)
        ELSE depth < maxDepth => ~blocks[k].has_children

\* C8: the invocations in progress are at depths 0, 1, ... and never deeper
\* than maxDepth, however deep or cyclic the remote document is; an
\* invocation at depth maxDepth returns its blocks without a children field;
\* and the tree returned (walked where maxDepth is small) has children fields
\* at depths below maxDepth only.
DepthBound ==
    /\ Len(trStack) <= trMaxDepth + 1
    /\ \A i \in 1..Len(trStack) :
          /\ trStack[i].depth = i - 1
          /\ trStack[i].depth >= trMaxDepth =>
                \A k \in 1..Len(trStack[i].blocks) :
                    "children" \notin DOMAIN trStack[i].blocks[k]
    /\ (trPc = "done" /\ trMaxDepth <= MaxDepthTried) =>
          WithinDepth(trOut, 0, trMaxDepth)

\* a cyclic remote document fetched at the default depth: the invocation at
\* depth 50 is about to return a block that has children, without fetching them
DepthBoundWitness ==
    /\ trPc = "run"
    /\ trMaxDepth = DEFAULT_MAX_DEPTH
    /\ trRemote[trRoot] = <<trRoot>>
    /\ Len(trStack) = DEFAULT_MAX_DEPTH + 1
    /\ Top.blocks[1].has_children
    /\ Returns(Top)

(***************************************************************************)
(* Properties of appendBlocks                                              *)
(***************************************************************************)
CeilDiv(n, d) == (n + d - 1) \div d

\* C9: the chunks are consecutive, non-empty, of at most
\* MAX_BLOCKS_PER_APPEND blocks, ceil(n / 100) in number, and concatenate to
\* the list; a completed appendBlocks has sent exactly these, in order.
AppendChunking ==
    /\ apPc \in {"loop", "done", "threw"} =>
          /\ \A k \in 1..Len(apChunks) :
                Len(apChunks[k]) >= 1 /\ Len(apChunks[k]) <= MAX_BLOCKS_PER_APPEND
          /\ Len(apChunks) = CeilDiv(Len(apBlocks), MAX_BLOCKS_PER_APPEND)
          /\ Flatten(apChunks) = apBlocks
          /\ apSent = SubSeq(apChunks, 1, Len(apSent))
    /\ apPc = "done" =>
          /\ Len(apSent) = CeilDiv(Len(apBlocks), MAX_BLOCKS_PER_APPEND)
          /\ Flatten(apSent) = apBlocks

\* 201 blocks went out in three PATCH calls
AppendChunkingWitness ==
    /\ apPc = "done"
    /\ Len(apBlocks) = 2 * MAX_BLOCKS_PER_APPEND + 1
    /\ Len(apSent) = 3
    /\ Len(apSent[3]) = 1

(***************************************************************************)
(* Properties of the inline formatter                                      *)
(***************************************************************************)
\* the positions of text that hold a special character
SpecialAt(text) == {k \in 1..Len(text) : text[k] \in SpecialChars}

\* text holds one opening delimiter and nothing that could close it: a
\* single special character, or one pair ** or ~~
OneUnclosedDelimiter(text) ==
    LET sp == SpecialAt(text)
    IN  \/ Cardinality(sp) = 1
        \/ /\ Cardinality(sp) = 2
           /\ \E k \in sp : /\ k + 1 \in sp
                            /\ text[k] = text[k + 1]
                            /\ text[k] \in {"*", "~"}

AllPlain(spans) ==
    \A k \in 1..Len(spans) :
        spans[k].annotations = PlainAnnotations /\ ~spans[k].link.set

\* C10: an opening delimiter without a closing one is kept as literal plain
\* text and nothing is dropped (so **unclosed bold comes back as it is).
MalformedTolerance ==
    (inPc = "done" /\ OneUnclosedDelimiter(inText))
        => Contents(inOut) = inText /\ AllPlain(inOut)

\* the spans of the output that hold the text x
SpansOf(spans, content) == {k \in 1..Len(spans) : spans[k].content = content}

\* C11: the nested emphasis forms bold-around-italic and italic-around-bold
\* (the latter written with a double underscore) both give a span for x that
\* is bold and italic at once; the enclosing marker only adds its annotation
\* to what the inner parse set.
AnnotationMonotonicity ==
    (inPc = "done" /\ inText \in {BoldAroundItalic, ItalicAroundBold})
        => /\ SpansOf(inOut, <<"x">>) # {}
           /\ \A k \in SpansOf(inOut, <<"x">>) :
                 inOut[k].annotations.bold /\ inOut[k].annotations.italic

WithinCap(spans) == \A k \in 1..Len(spans) : Len(spans[k].content) <= SEGMENT_CAP
Uniform(spans) ==
    \A j, k \in 1..Len(spans) :
        spans[j].annotations = spans[k].annotations /\ spans[j].link = spans[k].link

\* text is one run: plain text, or plain text inside one pair of markers
SingleRun(text) ==
    \/ SpecialAt(text) = {}
    \/ \E open \in {<<"*", "*">>, <<"~", "~">>, <<"*">>, <<"_">>, <<BT>>} :
         \E n \in 1..Len(text) :
            text = open \o PlainRun(n) \o open
    \/ \E n \in 1..Len(text) : text = <<"[">> \o PlainRun(n) \o <<"]", "(", "u", ")">>

\* C12 as stated: for every text longer than the cap, both formatters return
\* spans of at most 2000 characters whose contents, concatenated, are the text
\* exactly, the spans of one run carrying the same annotations and link.
SegmentCapExact ==
    (inPc \in {"done", "chunked"} /\ Len(inText) > SEGMENT_CAP)
        => /\ WithinCap(inOut)
           /\ Contents(inOut) = inText
           /\ (inPc = "chunked" \/ SingleRun(inText)) => Uniform(inOut)

\* C12: for every text longer than the cap, both formatters return spans of
\* at most 2000 characters, the spans of one run carrying the same
\* annotations and link; the contents concatenated are the text exactly for
\* textToRichText, and for parseInlineFormatting when the text holds no
\* markup character.
SegmentCap ==
    (inPc \in {"done", "chunked"} /\ Len(inText) > SEGMENT_CAP)
        => /\ WithinCap(inOut)
           /\ (inPc = "chunked" \/ SpecialAt(inText) = {})
                 => Contents(inOut) = inText
           /\ (inPc = "chunked" \/ SingleRun(inText)) => Uniform(inOut)

\* the bold run one character longer than MaxSegments caps has been split
\* into MaxSegments full spans and one of a single character
SegmentCapWitness ==
    /\ inPc = "done"
    /\ inText = LongBold
    /\ Len(inOut) = MaxSegments + 1
    /\ Len(inOut[1].content) = SEGMENT_CAP
    /\ Len(inOut[MaxSegments + 1].content) = 1
    /\ inOut[MaxSegments + 1].annotations.bold

(***************************************************************************)
(* Properties of the block parser and the renderer                         *)
(***************************************************************************)
\* C1: in every iteration of the main loop of parseMarkdownToBlocks, whichever
\* branch is taken, the iteration returns and leaves the line cursor at least
\* one line further on.
CursorAdvances ==
    (mdPc = "loop" /\ mdRound = 1 /\ mdI < Len(mdLines)) => ~Spins(mdLines, mdI)

\* every line is a list item and the first one is not indented
ListOnly(lines) ==
    /\ lines # <<>>
    /\ \A k \in 1..Len(lines) : ListItem(lines[k]).ok
    /\ ListItem(lines[1]).indent = 0

\* the nesting depth of the k-th item: one more than that of the nearest
\* item before it with a smaller indent, 0 when there is none
RECURSIVE NestDepth(_, _)
NestDepthBelow(indents, shallower) ==
    IF shallower = {} THEN 0
    ELSE 1 + NestDepth(indents, CHOOSE j \in shallower : \A h \in shallower : h <= j)
NestDepth(indents, k) ==
    NestDepthBelow(indents, {j \in 1..(k - 1) : indents[j] < indents[k]})

\* the items of a block tree in document order, each with its depth
RECURSIVE ItemsInOrder(_, _)
ItemsInOrder(blocks, depth) ==
    IF blocks = <<>> THEN <<>>
    ELSE <<[depth |-> depth, text |-> Contents(Head(blocks).data.rich_text)]>>
         \o (IF ObjHas(Head(blocks), "children")
              THEN ItemsInOrder(Head(blocks).data.children, depth + 1)
              ELSE <<>>)
         \o ItemsInOrder(Tail(blocks), depth)

\* the text of a list item, without the check box of a to-do
ItemTextOf(item, todo) == IF todo.ok THEN todo.text ELSE item.text
ItemText(item) == ItemTextOf(item, TodoMatch(item.text))
NestedByIndent(lines, indents) ==
    [k \in 1..Len(lines) |->
        [depth |-> NestDepth(indents, k), text |-> ItemText(ListItem(lines[k]))]]

\* C13: in a list, an item at the indent of the one before it is its sibling,
\* an item at a greater indent is a child of the nearest item before it with
\* a smaller indent, and an item at a lesser indent ends the level: every
\* item comes out once, in order, at the depth of that rule (so - a /   - b /
\*     - c is a root a whose sole child b has the sole child c).
ListNesting ==
    (mdPc = "parsed" /\ mdRound = 1 /\ ListOnly(mdLines))
        => ItemsInOrder(mdBlocks, 0) =
             NestedByIndent(mdLines,
                            [k \in 1..Len(mdLines) |-> ListPrefix(mdLines[k]).indent])

\* the three-level list has been parsed into one root with one child with
\* one child
ListNestingWitness ==
    /\ mdPc = "parsed"
    /\ mdRound = 1
    /\ mdLines = <<ListLine(0, 1), ListLine(2, 2), ListLine(4, 3)>>
    /\ Len(mdBlocks) = 1
    /\ Contents(mdBlocks[1].data.rich_text) = <<"a">>
    /\ Len(mdBlocks[1].data.children) = 1
    /\ Contents(mdBlocks[1].data.children[1].data.rich_text) = <<"b">>
    /\ Len(mdBlocks[1].data.children[1].data.children) = 1
    /\ Contents(mdBlocks[1].data.children[1].data.children[1].data.rich_text) = <<"c">>
    /\ ~ObjHas(mdBlocks[1].data.children[1].data.children[1], "children")

\* a separator line as the document shows it: a pipe line whose first cell
\* holds only dashes, colons and white space
LooksSeparator(line) ==
    \E k \in 2..Len(line) :
        /\ line[k] = "|"
        /\ \E j \in 1..(k - 2) :
              /\ line[j] = "|"
              /\ \A h \in 1..(j - 1) : line[h] \in WhiteSpace
              /\ \A h \in (j + 1)..(k - 1) : line[h] \in WhiteSpace \cup {":", "-"}
PipeCount(line) == Cardinality({k \in 1..Len(line) : line[k] = "|"})
RowLines(lines) == SelectSeq(lines, LAMBDA l : ~LooksSeparator(l))

\* the table block tb is the table of the pipe lines: a row for every line
\* but the separators, the width of the first row, the header flag set
TableOf(tb, lines, rowLines) ==
    /\ tb.type = "table"
    /\ Len(tb.data.children) = Len(rowLines)
    /\ \A r \in 1..Len(rowLines) :
          Len(tb.data.children[r].data.cells) = PipeCount(rowLines[r]) - 1
    /\ tb.data.table_width = PipeCount(rowLines[1]) - 1
    /\ (Len(rowLines) < Len(lines)) => tb.data.has_column_header

PipeTable(outLines, rows) ==
    /\ Len(outLines) = rows + 1
    /\ \A k \in 1..Len(outLines) : PipeCount(outLines[k]) >= 2
    /\ ~LooksSeparator(outLines[1])
    /\ LooksSeparator(outLines[2])

\* C15: the table block parsed from a header, a separator and a body line is
\* rendered by blockToMarkdown as a pipe table with one pipe line for each of
\* its rows and a separator line directly beneath the header.
TableRendering ==
    (/\ mdPc = "call" /\ mdRound = 2
     /\ mdLines = <<HeaderLine, SeparatorLine, BodyLine>>)
        => /\ Len(mdFirst) = 1
           /\ PipeTable(Split(blockToMarkdown(mdFirst[1], 0), NL),
                         Len(mdFirst[1].data.children))

\* the pair of each keyword, and the neutral pair
KeywordPairs ==
    {[keyword |-> <<"N", "O", "T", "E">>, emoji |-> EmojiMemo, color |-> <<"b", "l", "u", "e", "_", "b", "a", "c", "k", "g", "r", "o", "u", "n", "d">>],
     [keyword |-> <<"T", "I", "P">>, emoji |-> EmojiBulb, color |-> <<"g", "r", "e", "e", "n", "_", "b", "a", "c", "k", "g", "r", "o", "u", "n", "d">>],
     [keyword |-> <<"I", "M", "P", "O", "R", "T", "A", "N", "T">>, emoji |-> EmojiExclamation, color |-> <<"r", "e", "d", "_", "b", "a", "c", "k", "g", "r", "o", "u", "n", "d">>],
     [keyword |-> <<"W", "A", "R", "N", "I", "N", "G">>, emoji |-> EmojiWarning, color |-> <<"y", "e", "l", "l", "o", "w", "_", "b", "a", "c", "k", "g", "r", "o", "u", "n", "d">>],
     [keyword |-> <<"C", "A", "U", "T", "I", "O", "N">>, emoji |-> EmojiWarning, color |-> <<"o", "r", "a", "n", "g", "e", "_", "b", "a", "c", "k", "g", "r", "o", "u", "n", "d">>]}
NeutralPair == [emoji |-> EmojiThought, color |-> <<"g", "r", "a", "y", "_", "b", "a", "c", "k", "g", "r", "o", "u", "n", "d">>]
PairOf(keyword) ==
    IF \E p \in KeywordPairs : p.keyword = keyword
    THEN LET p == CHOOSE q \in KeywordPairs : q.keyword = keyword
         IN  [emoji |-> p.emoji, color |-> p.color]
    ELSE NeutralPair

\* the callout block cb holds the pair of the keyword and the text
CalloutOf(cb, keyword, text) ==
    /\ cb.type = "callout"
    /\ [emoji |-> cb.data.icon.emoji, color |-> cb.data.color] = PairOf(toUpperCase(keyword))
    /\ cb.data.icon.type = "emoji"
    /\ Contents(cb.data.rich_text) = text

\* C16: an admonition line becomes a callout whose emoji and color are the
\* fixed pair of its keyword, whatever the case of the keyword, and the gray
\* pair for an unknown keyword; its content is the text after the marker; a
\* callout of a yellow color (so that of > [!WARNING] disk low) is rendered by
\* blockToMarkdown as text that starts with > [!WARNING].
CalloutMapping ==
    (/\ mdPc = "parsed" /\ mdRound = 1
     /\ Len(mdLines) = 1
     /\ \E kw \in CalloutKeywords : mdLines[1] = CalloutLine(kw))
        => /\ Len(mdBlocks) = 1
           /\ \A kw \in CalloutKeywords :
                mdLines[1] = CalloutLine(kw) => CalloutOf(mdBlocks[1], kw, CalloutText)
           /\ toUpperCase(CalloutMatch(mdLines[1]).admonition) = <<"W", "A", "R", "N", "I", "N", "G">>
                => /\ Includes(mdBlocks[1].data.color, <<"y", "e", "l", "l", "o", "w">>)
                   /\ StartsWith(blockToMarkdown(mdBlocks[1], 0), <<">", " ", "[", "!", "W", "A", "R", "N", "I", "N", "G", "]">>)

\* > [!WARNING] disk low has been parsed into a yellow callout
CalloutMappingWitness ==
    /\ mdPc = "parsed"
    /\ mdRound = 1
    /\ mdLines = <<CalloutLine(<<"W", "A", "R", "N", "I", "N", "G">>)>>
    /\ Len(mdBlocks) = 1
    /\ mdBlocks[1].type = "callout"
    /\ mdBlocks[1].data.color = <<"y", "e", "l", "l", "o", "w", "_", "b", "a", "c", "k", "g", "r", "o", "u", "n", "d">>
    /\ Contents(mdBlocks[1].data.rich_text) = <<"d", "i", "s", "k", " ", "l", "o", "w">>

\* the number of lines up to and including the closing tag that matches the
\* opening tag of line 1, all lines when there is none
RECURSIVE ClosedAt(_, _, _)
ClosedAt(lines, k, depth) ==
    IF k > Len(lines) THEN Len(lines)
    ELSE IF Includes(lines[k], DetailsOpen) THEN ClosedAt(lines, k + 1, depth + 1)
    ELSE IF Includes(lines[k], DetailsClose)
    THEN IF depth = 1 THEN k ELSE ClosedAt(lines, k + 1, depth - 1)
    ELSE ClosedAt(lines, k + 1, depth)

\* C17: a toggle started on a <details> line consumes the lines up to and
\* including the closing tag that matches its opening tag (a nested pair does
\* not end it early), all lines when no closing tag follows, and the parse of
\* the interior lines becomes its children.
ToggleClosing ==
    (/\ mdPc = "loop" /\ mdRound = 1 /\ mdI = 0
     /\ mdLines # <<>>
     /\ StartsWith(mdLines[1], DetailsOpen)
     /\ ~MainIteration(mdLines, 0).hung)
        => /\ MainIteration(mdLines, 0).next = ClosedAt(mdLines, 1, 0)
           /\ Len(MainIteration(mdLines, 0).blocks) = 1
           /\ MainIteration(mdLines, 0).blocks[1].type = "toggle"

\* the lines after line k (counted from 1) that start with a fence
FencesAfter(lines, k) == {j \in (k + 1)..Len(lines) : StartsWith(lines[j], Fence3)}
\* the line that closes the fence opened on line k, one past the last line
\* when none does
ClosingFence(lines, k) ==
    IF FencesAfter(lines, k) = {} THEN Len(lines) + 1
    ELSE CHOOSE j \in FencesAfter(lines, k) : \A h \in FencesAfter(lines, k) : j <= h

\* step is the iteration on the opening fence on line k: one code block that
\* holds the lines up to the one that closes the fence, as they are, and a
\* cursor behind the closing line
CodeCaptured(step, lines, k, close) ==
    /\ ~step.hung
    /\ Len(step.blocks) = 1
    /\ step.blocks[1].type = "code"
    /\ Contents(step.blocks[1].data.rich_text) =
          Join(SubSeq(lines, k + 1, close - 1), <<NL>>)
    /\ \A n \in 1..Len(step.blocks[1].data.rich_text) :
          step.blocks[1].data.rich_text[n].annotations = PlainAnnotations
    /\ step.next = Min(close, Len(lines))

\* C18: after an opening fence line every following line is captured as it
\* is (blank lines, indentation and markup kept) up to the first line that
\* starts with a fence, which is consumed; without such a line the capture
\* runs to the end of the input; either way one code block is emitted.
CodeFence ==
    (/\ mdPc = "loop" /\ mdRound = 1 /\ mdI < Len(mdLines)
     /\ FenceMatch(mdLines[mdI + 1]).ok)
        => CodeCaptured(MainIteration(mdLines, mdI), mdLines, mdI + 1,
                        ClosingFence(mdLines, mdI + 1))

\* the fence that holds a line x and a blank line has been parsed, the
\* cursor standing behind its closing line
CodeFenceWitness ==
    /\ mdPc = "loop"
    /\ mdRound = 1
    /\ Len(mdLines) = 5
    /\ mdLines[1] = <<BT, BT, BT, "j", "s">>
    /\ mdLines[3] = <<>>
    /\ mdI = 4
    /\ Len(mdBlocks) = 1
    /\ mdBlocks[1].type = "code"
    /\ Contents(mdBlocks[1].data.rich_text) = <<"x", NL>>

StripSpace(s) == SelectSeq(s, LAMBDA c : c \notin WhiteSpace)
RichShape(spans) ==
    [k \in 1..Len(spans) |->
        [text |-> StripSpace(spans[k].content),
         annotations |-> spans[k].annotations,
         link |-> spans[k].link]]

\* what the round trip compares: block types, text without its white space,
\* annotations and child nesting
RECURSIVE TreeShape(_)
TreeShape(blocks) ==
    [k \in 1..Len(blocks) |->
        LET b == blocks[k]
        IN  [type |-> b.type,
             text |-> IF ObjHas(b, "rich_text") THEN RichShape(b.data.rich_text)
                      ELSE <<>>,
             cells |-> IF ObjHas(b, "cells")
                       THEN [c \in 1..Len(b.data.cells) |-> RichShape(b.data.cells[c])]
                       ELSE <<>>,
             children |-> IF ObjHas(b, "children") THEN TreeShape(b.data.children)
                          ELSE <<>>]]

\* C2: the blocks parsed from the export of a parsed document equal the
\* blocks of the document in types, text, annotations and child nesting.
RoundTrip ==
    (mdPc = "parsed" /\ mdRound = 2) => TreeShape(mdBlocks) = TreeShape(mdFirst)

\* lines that are neither blank nor list items: a paragraph and a heading
AfterListContent == {<<"h", "e", "l", "l", "o">>, <<"#", "#", " ", "t">>}

\* a document that starts with a list item at indent 0 and ends with a line of
\* AfterListContent, with nothing but list items and blank lines in between
ListThenContent(lines) ==
    /\ Len(lines) >= 2
    /\ ListItem(lines[1]).ok /\ ListItem(lines[1]).indent = 0
    /\ lines[Len(lines)] \in AfterListContent
    /\ \A k \in 2..(Len(lines) - 1) : IsBlank(lines[k]) \/ ListItem(lines[k]).ok

\* C24: when a document is a list item followed by a paragraph or a heading
\* (with only blank lines and list items in between), the blocks
\* parseMarkdownToBlocks returns start with the list item's block and end with
\* the block of that paragraph or heading.
NoLossAfterList ==
    (mdPc = "parsed" /\ mdRound = 1 /\ ListThenContent(mdLines))
        => /\ Len(mdBlocks) >= 2
           /\ mdBlocks[1].type \in {"bulleted_list_item", "numbered_list_item", "to_do"}
           /\ mdBlocks[Len(mdBlocks)].type \in {"paragraph", "heading_2"}

\* the table blocks among the blocks returned
TableBlocks == {k \in 1..Len(mdBlocks) : mdBlocks[k].type = "table"}

\* C25: in every table block parseMarkdownTable produces, each table_row has
\* exactly table_width cells.
TableShape ==
    (mdPc = "parsed" /\ mdRound = 1)
        => \A k \in TableBlocks :
              \A r \in 1..Len(mdBlocks[k].data.children) :
                  Len(mdBlocks[k].data.children[r].data.cells)
                      = mdBlocks[k].data.table_width

\* a |---| style separator: a pipe line whose cells all are made of dashes
\* and colons
FullSeparator(line) ==
    LET cells == TableCells(Trim(line))
    IN  /\ cells # <<>>
        /\ \A c \in 1..Len(cells) :
              /\ cells[c] # <<>>
              /\ \A h \in 1..Len(cells[c]) : cells[c][h] \in {"-", ":"}
DataLines(lines) == SelectSeq(lines, LAMBDA l : ~FullSeparator(l))

\* C26: of a run of pipe lines, every line that is not a |---| style
\* separator yields one table_row, in order, with the cells of the line; a
\* row such as |  | b |, whose first cell is blank, is among them.
RowPreservation ==
    (/\ mdPc = "parsed" /\ mdRound = 1
     /\ \A k \in 1..Len(mdLines) : PipeCount(mdLines[k]) >= 2
     /\ DataLines(mdLines) # <<>>)
        => /\ Len(mdBlocks) = 1
           /\ mdBlocks[1].type = "table"
           /\ Len(mdBlocks[1].data.children) = Len(DataLines(mdLines))
           /\ \A r \in 1..Len(DataLines(mdLines)) :
                 LET cells == TableCells(Trim(DataLines(mdLines)[r]))
                     row == mdBlocks[1].data.children[r].data.cells
                 IN  /\ Len(row) = Len(cells)
                     /\ \A c \in 1..Len(cells) : Contents(row[c]) = cells[c]

\* C27: when > [!K] text with K one of NOTE, TIP, IMPORTANT, WARNING and
\* CAUTION has been parsed into a callout, rendered and parsed again, the
\* rendering starts with > [!K] and the second callout has the color and the
\* text of the first.
CalloutRoundTrip ==
    (/\ mdPc = "parsed" /\ mdRound = 2
     /\ Len(mdFirst) = 1 /\ mdFirst[1].type = "callout"
     /\ \E p \in KeywordPairs : mdFirst[1].data.color = p.color)
        => LET K == (CHOOSE p \in KeywordPairs : mdFirst[1].data.color = p.color).keyword
           IN  /\ StartsWith(mdLines[1], <<">", " ", "[", "!">> \o K \o <<"]">>)
               /\ Len(mdBlocks) = 1
               /\ mdBlocks[1].type = "callout"
               /\ mdBlocks[1].data.color = mdFirst[1].data.color
               /\ Contents(mdBlocks[1].data.rich_text) = Contents(mdFirst[1].data.rich_text)

(***************************************************************************)
(* Properties of the commands                                              *)
(***************************************************************************)
\* the command line is in order up to its --set arguments: a title, a
\* parent, a markdown body, every --set of the form Prop=Value
WellFormed(args) ==
    /\ args.cmd = "create-md" => (args.title = "t" /\ args.parent # "none" /\ args.md)
    /\ \A k \in 1..Len(args.set) : args.set[k].eq /\ args.set[k].key # ""

\* the --set arguments that name an unknown property or one of a computed
\* or unsupported type
Offending(args) ==
    {k \in 1..Len(args.set) :
        \/ args.set[k].key \notin DOMAIN Schema
        \/ buildPropertyValue(Schema[args.set[k].key]).ok = FALSE}

\* what the error for a --set of this property has to name: the property
\* when the schema does not know it, else its type
FieldOrType(key) == IF key \in DOMAIN Schema THEN Schema[key] ELSE key

\* C19: in create-md and update-page, a --set that names an unknown
\* property, or a property of a computed or unsupported type, ends the
\* command with an error that names the property or the type, and no request
\* has been sent when it does.
SchemaViolation ==
    (cmPc \in {"done", "failed"} /\ WellFormed(cmArgs) /\ Offending(cmArgs) # {})
        => /\ cmError.thrown
           /\ cmError.arg = FieldOrType(cmArgs.set[MinOf(Offending(cmArgs))].key)
           /\ cmCalls = <<>>

\* C21: parseInlineFormatting never returns an empty sequence, and for an
\* empty, null or undefined input it returns exactly one span: empty content,
\* every boolean annotation false, color default, no link.
NeverEmpty ==
    inPc = "done" =>
        /\ Len(inOut) >= 1
        /\ inText \in {<<>>, Null, Undefined} =>
              /\ Len(inOut) = 1
              /\ inOut[1].content = <<>>
              /\ \A key \in {"bold", "italic", "strikethrough", "underline", "code"} :
                    ~inOut[1].annotations[key]
              /\ inOut[1].annotations.color = "default"
              /\ ~inOut[1].link.set

\* C21 witness: parseInlineFormatting has returned for an empty input
NeverEmptyWitness ==
    inPc = "done" /\ inText \in {<<>>, Null, Undefined}

\* C29: appendBlocks sends its chunks one at a time in list order: a step
\* that sends appends the chunk right after those already appended; a step
\* that throws leaves chunks 1..k-1 appended and chunk k and the later ones
\* unsent; after the throw nothing more is sent.
AppendSequential ==
    [][/\ apSent' # apSent
           => /\ apPc = "loop"
              /\ apSent' = Append(apSent, apChunks[Len(apSent) + 1])
              /\ Len(apResults') = Len(apSent')
       /\ apPc' = "threw"
           => /\ apSent' = apSent
              /\ apK' <= Len(apChunks')
              /\ apSent' = SubSeq(apChunks', 1, apK' - 1)
       /\ apPc = "threw" => UNCHANGED appendVars]_vars

\* C29 witness: the request of a chunk has failed with a chunk appended
\* before it and a chunk still to send
AppendSequentialWitness ==
    /\ apPc = "threw"
    /\ Len(apChunks) = 3
    /\ apK = 2
    /\ apSent = <<apChunks[1]>>

\* what cmdUpdateBlock has done, the markdown parsing to blocks
GuardedFor(blocks) ==
    IF Len(blocks) = 1
    THEN /\ cmPc = "done" /\ ~cmError.thrown
         /\ Len(cmCalls) = 1
         /\ cmCalls[1].method = "PATCH"
         /\ cmCalls[1].path = "/v1/blocks/id"
         /\ DOMAIN cmCalls[1].body = {blocks[1].type}
         /\ cmCalls[1].body[blocks[1].type] = ObjOf(blocks[1])
    ELSE /\ cmPc = "failed" /\ cmError.thrown
         /\ cmCalls = <<>>

\* C30: cmdUpdateBlock given markdown ends with an error and without a
\* request when the markdown parses to no block or to more than one, and with
\* exactly one PATCH of /v1/blocks/{id}, whose body has the block's type for
\* its single key, when it parses to one block.
UpdateBlockGuard ==
    (cmArgs.cmd = "update-block" /\ cmArgs.md /\ cmPc \in {"done", "failed"})
        => GuardedFor(parseMarkdownToBlocks(cmArgs.markdown).blocks)

\* C30 witness: update-block has refused a markdown of three blocks
UpdateBlockGuardWitness ==
    /\ cmArgs.cmd = "update-block"
    /\ cmArgs.md
    /\ Len(parseMarkdownToBlocks(cmArgs.markdown).blocks) = 3
    /\ cmPc = "failed"
    /\ cmCalls = <<>>

(***************************************************************************)
(* Properties of the renderer                                              *)
(***************************************************************************)
UnknownBlocks == {k \in 1..Len(rdBlocks) : rdBlocks[k].type \notin ModelledTypes}

\* the text of the rich_text of a fetched block: the plain_text of its spans
TextOf(block) ==
    IF "rich_text" \in DOMAIN block.data
    THEN Flatten([k \in 1..Len(block.data.rich_text) |-> block.data.rich_text[k].plain_text])
    ELSE <<>>

\* the lines under a block that has the one child FetchedChild
ChildLines(block) ==
    IF "children" \in DOMAIN block THEN <<NL, "c">> ELSE <<>>

Placeholder(block) ==
    <<"<", "!", "-", "-", " ", "U", "n", "s", "u", "p", "p", "o", "r", "t", "e", "d", " ", "b", "l", "o", "c", "k", " ", "t", "y", "p", "e", ":", " ">> \o <<block.type>> \o <<" ", "(">> \o block.id \o <<")", " ", "-", "-", ">">>

\* C20 (as stated): once the export has rendered, the markdown of every
\* top-level block whose type the switch does not know is the placeholder
\* comment with the block's type and id.
UnknownBlockPlaceholder ==
    rdPc = "done" =>
        \A k \in UnknownBlocks : rdParts[k] = Placeholder(rdBlocks[k])

\* C20 (amended): the markdown of a block of unknown type is the placeholder
\* comment with its type and id when the block has no text, and the text
\* followed by the block's children, without type and id, when it has text.
UnknownBlockRendering ==
    rdPc = "done" =>
        \A k \in UnknownBlocks :
            rdParts[k] = IF TextOf(rdBlocks[k]) = <<>> THEN Placeholder(rdBlocks[k])
                         ELSE TextOf(rdBlocks[k]) \o ChildLines(rdBlocks[k])

\* C20 witness: a rendered tree with an unknown block that has text and one
\* that has none
UnknownBlockWitness ==
    /\ rdPc = "done"
    /\ \E k \in UnknownBlocks : TextOf(rdBlocks[k]) # <<>>
    /\ \E k \in UnknownBlocks : TextOf(rdBlocks[k]) = <<>> /\ "children" \in DOMAIN rdBlocks[k]

\* whether s holds three newlines in a row
TripleNewline(s) ==
    \E k \in 1..(Len(s) - 2) : s[k] = NL /\ s[k + 1] = NL /\ s[k + 2] = NL

RenderedParts == SelectSeq(rdParts, NonEmpty)

\* C22: the document blocksToMarkdown returns holds no run of three newlines
\* or more and ends with exactly one newline; when no rendering of a
\* top-level block starts with a newline or holds such a run, the document is
\* the non-empty renderings with one blank line between them, and a newline.
NewlineCollapse ==
    rdPc = "done" =>
        /\ ~TripleNewline(rdOut)
        /\ Len(rdOut) >= 1 /\ rdOut[Len(rdOut)] = NL
        /\ Len(rdOut) >= 2 => rdOut[Len(rdOut) - 1] # NL
        /\ (\A k \in 1..Len(RenderedParts) :
                RenderedParts[k][1] # NL /\ ~TripleNewline(RenderedParts[k]))
              => rdOut = Join(RenderedParts, <<NL, NL>>) \o <<NL>>

\* C22 witness: a document of two renderings, one of them with three newlines
\* in a row
NewlineCollapseWitness ==
    /\ rdPc = "done"
    /\ Len(RenderedParts) = 2
    /\ \E k \in 1..2 : TripleNewline(RenderedParts[k])

\* the fenced text of a fetched code block
Fenced(block) ==
    Fence3 \o block.data.language \o <<NL>> \o TextOf(block) \o <<NL>> \o Fence3

\* C23: the rendering of every top-level code block is the opening fence with
\* the language, the interior text as it is and the closing fence, and the
\* document blocksToMarkdown returns holds that fenced text.
CodeRendering ==
    rdPc = "done" =>
        \A k \in 1..Len(rdBlocks) :
            rdBlocks[k].type = "code"
                => /\ rdParts[k] = Fenced(rdBlocks[k])
                   /\ Includes(rdOut, Fenced(rdBlocks[k]))

(***************************************************************************)
(* Properties of the Plaid token store                                     *)
(***************************************************************************)
Succeeded(kind) ==
    {plReq[h].item : h \in {g \in Handlers : plReq[g].kind = kind /\ plReq[g].status = 200}}

\* C28: when the handlers of concurrent exchange-token and delete requests
\* have all answered with success, the token file holds exactly the items it
\* held before and the items added, without the items deleted.
TokenStoreConsistency ==
    (\A h \in Handlers : plReq[h].pc = "done" /\ plReq[h].status = 200)
        => ItemsOf(plFile) = (ItemsOf(plBefore) \cup Succeeded("post")) \ Succeeded("delete")

(***************************************************************************)
(* Specifications                                                          *)
(***************************************************************************)
InitSpecHttp ==
    InitHttp /\ IdlePage /\ IdleTree /\ IdleAppend /\ IdleInline /\ IdleParse /\ IdleCmd
        /\ IdleRender /\ IdlePlaid
InitSpecHttpConc ==
    InitHttpConc /\ IdlePage /\ IdleTree /\ IdleAppend /\ IdleInline /\ IdleParse /\ IdleCmd
        /\ IdleRender /\ IdlePlaid
InitSpecPage ==
    IdleHttp /\ InitPage /\ IdleTree /\ IdleAppend /\ IdleInline /\ IdleParse /\ IdleCmd
        /\ IdleRender /\ IdlePlaid
InitSpecTree ==
    IdleHttp /\ IdlePage /\ InitTree /\ IdleAppend /\ IdleInline /\ IdleParse /\ IdleCmd
        /\ IdleRender /\ IdlePlaid
InitSpecAppend ==
    IdleHttp /\ IdlePage /\ IdleTree /\ InitAppend /\ IdleInline /\ IdleParse /\ IdleCmd
        /\ IdleRender /\ IdlePlaid
InitSpecInline ==
    IdleHttp /\ IdlePage /\ IdleTree /\ IdleAppend /\ InitInline /\ IdleParse /\ IdleCmd
        /\ IdleRender /\ IdlePlaid
InitSpecParse ==
    IdleHttp /\ IdlePage /\ IdleTree /\ IdleAppend /\ IdleInline /\ InitParse /\ IdleCmd
        /\ IdleRender /\ IdlePlaid
InitSpecCmd ==
    IdleHttp /\ IdlePage /\ IdleTree /\ IdleAppend /\ IdleInline /\ IdleParse /\ InitCmd
        /\ IdleRender /\ IdlePlaid
InitSpecRender ==
    IdleHttp /\ IdlePage /\ IdleTree /\ IdleAppend /\ IdleInline /\ IdleParse /\ IdleCmd
        /\ InitRender /\ IdlePlaid
InitSpecPlaid ==
    IdleHttp /\ IdlePage /\ IdleTree /\ IdleAppend /\ IdleInline /\ IdleParse /\ IdleCmd
        /\ IdleRender /\ InitPlaid

SpecHttp == InitSpecHttp /\ [][NextHttp]_vars
SpecHttpConc == InitSpecHttpConc /\ [][NextHttpConc]_vars
SpecPage == InitSpecPage /\ [][NextPage]_vars
SpecTree == InitSpecTree /\ [][NextTree]_vars
SpecAppend == InitSpecAppend /\ [][NextAppend]_vars
SpecInline == InitSpecInline /\ [][NextInline]_vars
SpecParse == InitSpecParse /\ [][NextParse]_vars
SpecCmd == InitSpecCmd /\ [][NextCmd]_vars
SpecRender == InitSpecRender /\ [][NextRender]_vars
SpecPlaid == InitSpecPlaid /\ [][NextPlaid]_vars

====
